---- MODULE Spec2Model ----
(***************************************************************************)
(* A model of the erc7730 crate: the signature parser and calldata decoder *)
(* (decoder.rs), the calldata renderer (engine.rs, lib.rs) and the typed   *)
(* data renderer (eip712.rs).                                              *)
(*                                                                         *)
(* Conventions.                                                            *)
(*  - A Rust String / &str is a sequence of one-character strings, so that *)
(*    trimming, searching, slicing and concatenation are computed.         *)
(*  - A byte buffer is a sequence of 0..255; Rust's 0-based index i is the *)
(*    model's position i+1.                                                *)
(*  - A usize is a record of three limbs (see the usize section): offsets  *)
(*    read from calldata range over the whole 64-bit width.                *)
(*  - Result<T,E>: [ok |-> TRUE, val |-> v] or [ok |-> FALSE, err |-> e];  *)
(*    a panic is the error PanicErr, which every caller passes on, as      *)
(*    unwinding does.                                                      *)
(***************************************************************************)
EXTENDS Integers, Sequences, FiniteSets, TLC

Ok(v) == [ok |-> TRUE, val |-> v]

Err(e) == [ok |-> FALSE, err |-> e]

\* `let x = value;` and the rest of the function, which reads the value as
\* x: Let([x \in {value} |-> rest]). The value is computed once, before the
\* rest. For `value?` the rest is IF ~x_r.ok THEN x_r ELSE ..., the Err
\* returned as it is. A function that appends to the warnings returns
\* [r |-> the Result, w |-> the warnings afterwards].
Let(f) == f[CHOOSE x \in DOMAIN f : TRUE]

\* error.rs: DecodeError and Error, by kind. `sub` is the DecodeError variant
\* ("" for the other kinds), `what` the value an error message names.
InvalidSignature == [kind |-> "Decode", sub |-> "InvalidSignature", what |-> <<>>]

\* expected and actual are usize values (see the usize section)
CalldataTooShort(expected, actual) ==
    [kind |-> "Decode", sub |-> "CalldataTooShort", what |-> <<expected, actual>>]

\* expected and actual are the two selectors in hexadecimal
SelectorMismatch(expected, actual) ==
    [kind |-> "Decode", sub |-> "SelectorMismatch", what |-> <<expected, actual>>]

InvalidEncoding == [kind |-> "Decode", sub |-> "InvalidEncoding", what |-> <<>>]

RenderError(what) == [kind |-> "Render", sub |-> "", what |-> what]

\* A panic (index out of range, arithmetic overflow in a checked build,
\* capacity overflow) and the overflow of the call stack.
PanicErr == [kind |-> "Panic", sub |-> "", what |-> <<>>]

\* A call that never returns: a loop without end.
HangErr == [kind |-> "Hang", sub |-> "", what |-> <<>>]

StackOverflowErr == [kind |-> "StackOverflow", sub |-> "", what |-> <<>>]

(***************************************************************************)
(* Strings                                                                 *)
(***************************************************************************)
WhiteSpace == {" ", "\t", "\n"}

DigitChars == <<"0", "1", "2", "3", "4", "5", "6", "7", "8", "9">>

IsDigit(c) == \E i \in 1..10 : DigitChars[i] = c

DigitVal(c) == (CHOOSE i \in 1..10 : DigitChars[i] = c) - 1

Min(a, b) == IF a < b THEN a ELSE b

\* s[from..] with `from` a 1-based position
Drop(s, from) == SubSeq(s, from, Len(s))

RECURSIVE Concat(_)
\* the concatenation of a sequence of strings
Concat(ss) == IF ss = <<>> THEN <<>> ELSE Head(ss) \o Concat(Tail(ss))

RECURSIVE Join(_, _)
\* [String]::join(sep)
Join(ss, sep) ==
    IF ss = <<>> THEN <<>>
    ELSE IF Len(ss) = 1 THEN ss[1]
    ELSE ss[1] \o sep \o Join(Tail(ss), sep)

StartsWith(s, p) == Len(s) >= Len(p) /\ SubSeq(s, 1, Len(p)) = p

EndsWith(s, p) == Len(s) >= Len(p) /\ SubSeq(s, Len(s) - Len(p) + 1, Len(s)) = p

\* str::find(pat) from position `from`: the first position of `pat`, 0 if none
FindFrom(s, pat, from) ==
    LET hits == {i \in from..(Len(s) - Len(pat) + 1) : SubSeq(s, i, i + Len(pat) - 1) = pat}
    IN  IF hits = {} THEN 0 ELSE CHOOSE i \in hits : \A j \in hits : i <= j

Find(s, pat) == FindFrom(s, pat, 1)

\* str::rfind(char): the last position of c, 0 if none
RFind(s, c) ==
    LET hits == {i \in 1..Len(s) : s[i] = c}
    IN  IF hits = {} THEN 0 ELSE CHOOSE i \in hits : \A j \in hits : i >= j

\* str::trim()
Trim(s) ==
    LET keep == {i \in 1..Len(s) : s[i] \notin WhiteSpace}
    IN  IF keep = {} THEN <<>>
        ELSE SubSeq(s, CHOOSE i \in keep : \A j \in keep : i <= j,
                       CHOOSE i \in keep : \A j \in keep : i >= j)

\* str::to_lowercase() on the letters an address can hold
LowerChar(c) ==
    CASE c = "A" -> "a" [] c = "B" -> "b" [] c = "C" -> "c"
      [] c = "D" -> "d" [] c = "E" -> "e" [] c = "F" -> "f"
      [] c = "X" -> "x" [] OTHER -> c

ToLowercase(s) == [i \in 1..Len(s) |-> LowerChar(s[i])]

RECURSIVE NatToString(_)
\* format!("{n}") of a non-negative integer
NatToString(n) ==
    IF n < 10 THEN <<DigitChars[n + 1]>>
    ELSE NatToString(n \div 10) \o <<DigitChars[(n % 10) + 1]>>

RECURSIVE DigitsToNat(_, _)
DigitsToNat(s, acc) ==
    IF s = <<>> THEN acc ELSE DigitsToNat(Tail(s), acc * 10 + DigitVal(Head(s)))

RECURSIVE StripZeros(_)
StripZeros(s) == IF Len(s) > 1 /\ Head(s) = "0" THEN StripZeros(Tail(s)) ELSE s

(***************************************************************************)
(* decoder.rs: the ABI parameter tree and the signature parser             *)
(***************************************************************************)
\* ParamType, by variant
Address == [t |-> "Address"]

Uint(bits) == [t |-> "Uint", bits |-> bits]

Int_(bits) == [t |-> "Int", bits |-> bits]

Bool == [t |-> "Bool"]

Bytes == [t |-> "Bytes"]

FixedBytes(size) == [t |-> "FixedBytes", size |-> size]

String_ == [t |-> "String"]

Array(inner) == [t |-> "Array", inner |-> inner]

FixedArray(inner, size) == [t |-> "FixedArray", inner |-> inner, size |-> size]

Tuple(members) == [t |-> "Tuple", members |-> members]

RECURSIVE is_dynamic(_)
is_dynamic(p) ==
    CASE p.t \in {"Bytes", "String"} -> TRUE
      [] p.t = "Array" -> TRUE
      [] p.t = "FixedArray" -> is_dynamic(p.inner)
      [] p.t = "Tuple" -> \E i \in 1..Len(p.members) : is_dynamic(p.members[i])
      [] OTHER -> FALSE

\* str::parse::<usize>(): an optional '+', then one or more digits. The
\* model holds the value as an integer, which is exact for numerals of at
\* most nine significant digits; a numeral of more than twenty digits
\* overflows usize. The signatures of the model stay within the former.
parse_usize(s) ==
    LET body == IF s # <<>> /\ Head(s) = "+" THEN Tail(s) ELSE s
        sig == StripZeros(body)
    IN  IF body = <<>> \/ \E i \in 1..Len(body) : ~IsDigit(body[i]) THEN Err(InvalidSignature)
        ELSE IF Len(sig) > 9 THEN Err(InvalidSignature)
        ELSE Ok(DigitsToNat(sig, 0))

RECURSIVE parse_param_type(_)
RECURSIVE param_list_loop(_, _, _, _, _)

\* the parenthesis depth the scan of parse_param_list has before position i
DepthBefore(s, i) ==
    Cardinality({j \in 1..(i - 1) : s[j] = "("}) - Cardinality({j \in 1..(i - 1) : s[j] = ")"})

\* the positions of the commas at depth 0, in order
TopCommas(s) ==
    [k \in 1..Cardinality({i \in 1..Len(s) : s[i] = "," /\ DepthBefore(s, i) = 0}) |->
        CHOOSE i \in 1..Len(s) :
            /\ s[i] = "," /\ DepthBefore(s, i) = 0
            /\ Cardinality({j \in 1..(i - 1) : s[j] = "," /\ DepthBefore(s, j) = 0}) = k - 1]

\* parse_param_list from its k-th comma at depth 0: start is the position
\* where the current item begins, acc the items parsed so far. After the
\* last comma come the check of the depth and the last item.
param_list_loop(s, commas, k, start, acc) ==
    IF k > Len(commas) THEN
        IF DepthBefore(s, Len(s) + 1) # 0 THEN Err(InvalidSignature)
        ELSE Let([last \in {Trim(Drop(s, start))} |->
                 IF last = <<>> THEN Ok(acc)
                 ELSE Let([param_r \in {parse_param_type(last)} |->
                          IF ~param_r.ok THEN param_r ELSE Ok(Append(acc, param_r.val))])])
    ELSE Let([param_r \in {parse_param_type(Trim(SubSeq(s, start, commas[k] - 1)))} |->
             IF ~param_r.ok THEN param_r
             ELSE param_list_loop(s, commas, k + 1, commas[k] + 1, Append(acc, param_r.val))])

\* parse_param_list. A ')' met at depth 0 ends the scan with the error any
\* item before it would give.
parse_param_list(s) ==
    IF \E i \in 1..Len(s) : s[i] = ")" /\ DepthBefore(s, i) = 0 THEN Err(InvalidSignature)
    ELSE param_list_loop(s, TopCommas(s), 1, 1, <<>>)

\* primitive types without the shorthands uint and int
parse_primitive_widths_only(s) ==
    IF s = <<"a", "d", "d", "r", "e", "s", "s">> THEN Ok(Address)
    ELSE IF s = <<"b", "o", "o", "l">> THEN Ok(Bool)
    ELSE IF s = <<"s", "t", "r", "i", "n", "g">> THEN Ok(String_)
    ELSE IF s = <<"b", "y", "t", "e", "s">> THEN Ok(Bytes)
    ELSE IF StartsWith(s, <<"u", "i", "n", "t">>) THEN
        Let([n_r \in {parse_usize(Drop(s, 5))} |-> IF ~n_r.ok THEN n_r ELSE Ok(Uint(n_r.val))])
    ELSE IF StartsWith(s, <<"i", "n", "t">>) THEN
        Let([n_r \in {parse_usize(Drop(s, 4))} |-> IF ~n_r.ok THEN n_r ELSE Ok(Int_(n_r.val))])
    ELSE IF StartsWith(s, <<"b", "y", "t", "e", "s">>) THEN
        Let([n_r \in {parse_usize(Drop(s, 6))} |-> IF ~n_r.ok THEN n_r ELSE Ok(FixedBytes(n_r.val))])
    ELSE Err(InvalidSignature)

\* the primitive types of parse_param_type
parse_primitive(s) ==
    IF s = <<"a", "d", "d", "r", "e", "s", "s">> THEN Ok(Address)
    ELSE IF s = <<"b", "o", "o", "l">> THEN Ok(Bool)
    ELSE IF s = <<"s", "t", "r", "i", "n", "g">> THEN Ok(String_)
    ELSE IF s = <<"b", "y", "t", "e", "s">> THEN Ok(Bytes)
    ELSE IF StartsWith(s, <<"u", "i", "n", "t">>) THEN
        IF Len(s) = 4 THEN Ok(Uint(256))
        ELSE Let([n_r \in {parse_usize(Drop(s, 5))} |->
                 IF ~n_r.ok THEN n_r ELSE LET n == n_r.val IN Ok(Uint(n))])
    ELSE IF StartsWith(s, <<"i", "n", "t">>) THEN
        IF Len(s) = 3 THEN Ok(Int_(256))
        ELSE Let([n_r \in {parse_usize(Drop(s, 4))} |->
                 IF ~n_r.ok THEN n_r ELSE LET n == n_r.val IN Ok(Int_(n))])
    ELSE IF StartsWith(s, <<"b", "y", "t", "e", "s">>) THEN
        Let([n_r \in {parse_usize(Drop(s, 6))} |->
            IF ~n_r.ok THEN n_r ELSE LET n == n_r.val IN Ok(FixedBytes(n))])
    ELSE Err(InvalidSignature)

parse_param_type(s0) ==
    LET s == Trim(s0)
        bracket_pos == RFind(s, "[")
    IN  IF bracket_pos # 0 /\ EndsWith(s, <<"]">>) THEN
            LET inner_str == SubSeq(s, 1, bracket_pos - 1)
                size_str == SubSeq(s, bracket_pos + 1, Len(s) - 1)
            IN  Let([inner_r \in {parse_param_type(inner_str)} |->
                    IF ~inner_r.ok THEN inner_r ELSE LET inner == inner_r.val IN
                    IF size_str = <<>> THEN Ok(Array(inner))
                    ELSE Let([size_r \in {parse_usize(size_str)} |->
                             IF ~size_r.ok THEN size_r ELSE LET size == size_r.val IN
                             Ok(FixedArray(inner, size))])])
        ELSE IF StartsWith(s, <<"(">>) /\ EndsWith(s, <<")">>) /\ Len(s) >= 2 THEN
            LET inner == SubSeq(s, 2, Len(s) - 1) IN
            IF inner = <<>> THEN Ok(Tuple(<<>>))
            ELSE Let([members_r \in {parse_param_list(inner)} |->
                     IF ~members_r.ok THEN members_r ELSE LET members == members_r.val IN Ok(Tuple(members))])
        ELSE parse_primitive(s)

RECURSIVE canonical_param(_)
canonical_param(p) ==
    CASE p.t = "Address" -> <<"a", "d", "d", "r", "e", "s", "s">>
      [] p.t = "Uint" -> <<"u", "i", "n", "t">> \o NatToString(p.bits)
      [] p.t = "Int" -> <<"i", "n", "t">> \o NatToString(p.bits)
      [] p.t = "Bool" -> <<"b", "o", "o", "l">>
      [] p.t = "Bytes" -> <<"b", "y", "t", "e", "s">>
      [] p.t = "FixedBytes" -> <<"b", "y", "t", "e", "s">> \o NatToString(p.size)
      [] p.t = "String" -> <<"s", "t", "r", "i", "n", "g">>
      [] p.t = "Array" -> canonical_param(p.inner) \o <<"[", "]">>
      [] p.t = "FixedArray" ->
            canonical_param(p.inner) \o <<"[">> \o NatToString(p.size) \o <<"]">>
      [] p.t = "Tuple" ->
            <<"(">> \o Join([i \in 1..Len(p.members) |-> canonical_param(p.members[i])], <<",">>)
                    \o <<")">>

canonical_params(params) ==
    Join([i \in 1..Len(params) |-> canonical_param(params[i])], <<",">>)

(***************************************************************************)
(* usize. A 64-bit value is hi * 2^48 + mid * 2^24 + lo, so that every     *)
(* limb and every intermediate sum is a small integer.                     *)
(***************************************************************************)
Limb == 2 ^ 24

HiLimb == 2 ^ 16

\* a small non-negative integer as a usize
USize(n) == [hi |-> 0, mid |-> n \div Limb, lo |-> n % Limb]

\* u64::from_be_bytes
u64_from_be_bytes(b) ==
    [hi |-> b[1] * 256 + b[2],
     mid |-> b[3] * 65536 + b[4] * 256 + b[5],
     lo |-> b[6] * 65536 + b[7] * 256 + b[8]]

ULe(x, y) ==
    \/ x.hi < y.hi
    \/ x.hi = y.hi /\ x.mid < y.mid
    \/ x.hi = y.hi /\ x.mid = y.mid /\ x.lo <= y.lo

ULt(x, y) == ULe(x, y) /\ x # y

\* the value of a usize that is below 2^30
ToInt(x) == x.mid * Limb + x.lo

FitsInt(x) == x.hi = 0 /\ x.mid < 64

\* x + y modulo 2^64, and whether the sum left the 64 bits
WrappingAdd(x, y) ==
    LET lo == x.lo + y.lo
        mid == x.mid + y.mid + (lo \div Limb)
        hi == x.hi + y.hi + (mid \div Limb)
    IN  [val |-> [hi |-> hi % HiLimb, mid |-> mid % Limb, lo |-> lo % Limb],
         overflow |-> hi >= HiLimb]

VARIABLES
    overflow_checks,  \* the build: TRUE when `+` panics on overflow (debug), FALSE when it wraps
    call,             \* the last call made to the library: its name and arguments
    returned,         \* what that call returned
    books,            \* the caller's two AddressBook objects
    tokens            \* the caller's StaticTokenSource

vars == <<overflow_checks, call, returned, books, tokens>>

\* `x + y` on usize: a panic in a build with overflow checks, the wrapped sum
\* in a build without
Add(x, y) ==
    LET r == WrappingAdd(x, y) IN
    IF r.overflow /\ overflow_checks THEN Err(PanicErr) ELSE Ok(r.val)

\* data[a..b]: a panic unless a <= b <= data.len()
Slice(data, a, b) ==
    IF ULe(a, b) /\ ULe(b, USize(Len(data)))
    THEN Ok(SubSeq(data, ToInt(a) + 1, ToInt(b)))
    ELSE Err(PanicErr)

(***************************************************************************)
(* decoder.rs: decoded values and the calldata decoder                     *)
(***************************************************************************)
\* ArgumentValue, by variant
AddressV(b) == [v |-> "Address", bytes |-> b]

UintV(b) == [v |-> "Uint", bytes |-> b]

IntV(b) == [v |-> "Int", bytes |-> b]

BoolV(b) == [v |-> "Bool", b |-> b]

BytesV(b) == [v |-> "Bytes", bytes |-> b]

FixedBytesV(b) == [v |-> "FixedBytes", bytes |-> b]

StringV(s) == [v |-> "String", s |-> s]

ArrayV(items) == [v |-> "Array", items |-> items]

TupleV(items) == [v |-> "Tuple", items |-> items]

ensure_bytes(data, offset, len) ==
    Let([end_r \in {Add(offset, len)} |->
        IF ~end_r.ok THEN end_r ELSE LET end == end_r.val IN
        IF ~ULe(end, USize(Len(data)))
        THEN Err(CalldataTooShort(end, USize(Len(data))))
        ELSE Ok(TRUE)])

\* data[offset..offset + len]
SliceLen(data, offset, len) ==
    Let([end_r \in {Add(offset, len)} |->
        IF ~end_r.ok THEN end_r ELSE LET end == end_r.val IN Slice(data, offset, end)])

read_u256_as_usize(data, offset) ==
    Let([chk_r \in {ensure_bytes(data, offset, USize(32))} |->
        IF ~chk_r.ok THEN chk_r ELSE LET chk == chk_r.val IN
    Let([word_r \in {SliceLen(data, offset, USize(32))} |->
        IF ~word_r.ok THEN word_r ELSE LET word == word_r.val IN
        IF \E i \in 1..24 : word[i] # 0 THEN Err(InvalidEncoding)
        ELSE Ok(u64_from_be_bytes(SubSeq(word, 25, 32)))])])

\* The characters of the bytes 0..127; a control character and the grave accent
\* (which the lexer does not take in a string) are named by their
\* code.
AsciiChars ==
    <<"<00>", "<01>", "<02>", "<03>", "<04>", "<05>", "<06>", "<07>",
       "<08>", "\t", "\n", "<0b>", "<0c>", "<0d>", "<0e>", "<0f>",
       "<10>", "<11>", "<12>", "<13>", "<14>", "<15>", "<16>", "<17>",
       "<18>", "<19>", "<1a>", "<1b>", "<1c>", "<1d>", "<1e>", "<1f>",
       " ", "!", "\"", "#", "$", "%", "&", "'",
       "(", ")", "*", "+", ",", "-", ".", "/",
       "0", "1", "2", "3", "4", "5", "6", "7",
       "8", "9", ":", ";", "<", "=", ">", "?",
       "@", "A", "B", "C", "D", "E", "F", "G",
       "H", "I", "J", "K", "L", "M", "N", "O",
       "P", "Q", "R", "S", "T", "U", "V", "W",
       "X", "Y", "Z", "[", "\\", "]", "^", "_",
       "<60>", "a", "b", "c", "d", "e", "f", "g",
       "h", "i", "j", "k", "l", "m", "n", "o",
       "p", "q", "r", "s", "t", "u", "v", "w",
       "x", "y", "z", "{", "|", "}", "~", "<7f>">>

\* a continuation byte of UTF-8 at position i of b
IsContinuation(b, i, low, high) == i <= Len(b) /\ b[i] >= low /\ b[i] <= high

\* whether a multi-byte character of UTF-8 starts at position i of b
MultiByteAt(b, i) ==
    LET c == b[i] IN
    CASE c >= 194 /\ c <= 223 -> IsContinuation(b, i + 1, 128, 191)
      [] c >= 224 /\ c <= 239 ->
            /\ IsContinuation(b, i + 1, IF c = 224 THEN 160 ELSE 128, IF c = 237 THEN 159 ELSE 191)
            /\ IsContinuation(b, i + 2, 128, 191)
      [] c >= 240 /\ c <= 244 ->
            /\ IsContinuation(b, i + 1, IF c = 240 THEN 144 ELSE 128, IF c = 244 THEN 143 ELSE 191)
            /\ IsContinuation(b, i + 2, 128, 191)
            /\ IsContinuation(b, i + 3, 128, 191)
      [] OTHER -> FALSE

\* the first byte of b that is not below 0x80
FirstHigh(b) ==
    CHOOSE i \in 1..Len(b) : b[i] >= 128 /\ \A j \in 1..(i - 1) : b[j] < 128

\* std::str::from_utf8. A byte below 0x80 is one character; a byte that
\* starts no well-formed multi-byte character is an error. The buffers of the
\* model hold no well-formed multi-byte character, and the scan has no value
\* for one.
from_utf8(b) ==
    IF \A i \in 1..Len(b) : b[i] < 128
    THEN Ok([i \in 1..Len(b) |-> AsciiChars[b[i] + 1]])
    ELSE CASE ~MultiByteAt(b, FirstHigh(b)) -> Err(InvalidEncoding)

\* Vec::with_capacity(len) of ArgumentValue (32 bytes each): a panic
\* ("capacity overflow") when len * 32 exceeds isize::MAX, i.e. len >= 2^58
capacity_overflow(len) == len.hi >= 1024

RECURSIVE decode_value(_, _, _)
RECURSIVE decode_value_at(_, _, _)
RECURSIVE decode_elements_loop(_, _, _, _, _, _)
RECURSIVE decode_members_loop(_, _, _, _, _)

\* the loop of decode_array_elements: i elements decoded so far
decode_elements_loop(inner, data, elem_offset, len, i, values) ==
    IF ~ULt(USize(i), len) THEN Ok(ArrayV(values))
    ELSE Let([value_r \in {decode_value(inner, data, elem_offset)} |->
             IF ~value_r.ok THEN value_r ELSE LET value == value_r.val IN
         Let([next_r \in {Add(elem_offset, USize(32))} |->
             IF ~next_r.ok THEN next_r ELSE LET next == next_r.val IN
             decode_elements_loop(inner, data, next, len, i + 1, Append(values, value))])])

\* a decode_array_elements that decodes no element
decode_array_elements_none(inner, data, offset, len) ==
    IF capacity_overflow(len) THEN Err(PanicErr) ELSE Ok(ArrayV(<<>>))

decode_array_elements(inner, data, offset, len) ==
    IF capacity_overflow(len) THEN Err(PanicErr)
    ELSE decode_elements_loop(inner, data, offset, len, 0, <<>>)

\* the loop over the members of a tuple in decode_value_at
decode_members_loop(members, data, member_offset, i, values) ==
    IF i > Len(members) THEN Ok(TupleV(values))
    ELSE Let([value_r \in {decode_value(members[i], data, member_offset)} |->
             IF ~value_r.ok THEN value_r ELSE LET value == value_r.val IN
         Let([next_r \in {Add(member_offset, USize(32))} |->
             IF ~next_r.ok THEN next_r ELSE LET next == next_r.val IN
             decode_members_loop(members, data, next, i + 1, Append(values, value))])])

decode_value_at(param, data, offset) ==
    Let([chk_r \in {ensure_bytes(data, offset, USize(32))} |->
        IF ~chk_r.ok THEN chk_r ELSE LET chk == chk_r.val IN
        CASE param.t = "Address" ->
                Let([word_r \in {SliceLen(data, offset, USize(32))} |->
                    IF ~word_r.ok THEN word_r ELSE LET word == word_r.val IN
                    Ok(AddressV(SubSeq(word, 13, 32)))])
          [] param.t \in {"Uint", "Int"} ->
                Let([word_r \in {SliceLen(data, offset, USize(32))} |->
                    IF ~word_r.ok THEN word_r ELSE LET word == word_r.val IN
                    IF param.t = "Uint" THEN Ok(UintV(word)) ELSE Ok(IntV(word))])
          [] param.t = "Bool" ->
                Let([idx_r \in {Add(offset, USize(31))} |->
                    IF ~idx_r.ok THEN idx_r ELSE LET idx == idx_r.val IN
                    IF ~ULt(idx, USize(Len(data))) THEN Err(PanicErr)
                    ELSE Ok(BoolV(data[ToInt(idx) + 1] # 0))])
          [] param.t = "FixedBytes" ->
                Let([bytes_r \in {SliceLen(data, offset, USize(param.size))} |->
                    IF ~bytes_r.ok THEN bytes_r ELSE LET bytes == bytes_r.val IN
                    Ok(FixedBytesV(bytes))])
          [] param.t \in {"Bytes", "String"} ->
                Let([len_r \in {read_u256_as_usize(data, offset)} |->
                    IF ~len_r.ok THEN len_r ELSE LET len == len_r.val IN
                Let([start_r \in {Add(offset, USize(32))} |->
                    IF ~start_r.ok THEN start_r ELSE LET start == start_r.val IN
                Let([chk2_r \in {ensure_bytes(data, start, len)} |->
                    IF ~chk2_r.ok THEN chk2_r ELSE LET chk2 == chk2_r.val IN
                Let([bytes_r \in {SliceLen(data, start, len)} |->
                    IF ~bytes_r.ok THEN bytes_r ELSE LET bytes == bytes_r.val IN
                    IF param.t = "Bytes" THEN Ok(BytesV(bytes))
                    ELSE Let([str_r \in {from_utf8(bytes)} |->
                             IF ~str_r.ok THEN str_r ELSE LET str == str_r.val IN Ok(StringV(str))])])])])])
          [] param.t = "Array" ->
                Let([len_r \in {read_u256_as_usize(data, offset)} |->
                    IF ~len_r.ok THEN len_r ELSE LET len == len_r.val IN
                Let([elements_start_r \in {Add(offset, USize(32))} |->
                    IF ~elements_start_r.ok THEN elements_start_r ELSE LET elements_start == elements_start_r.val IN
                    decode_array_elements(param.inner, data, elements_start, len)])])
          [] param.t = "FixedArray" ->
                decode_array_elements(param.inner, data, offset, USize(param.size))
          [] param.t = "Tuple" ->
                decode_members_loop(param.members, data, offset, 1, <<>>)])

decode_value(param, data, head_offset) ==
    IF is_dynamic(param) THEN
        Let([offset_r \in {read_u256_as_usize(data, head_offset)} |->
            IF ~offset_r.ok THEN offset_r ELSE LET offset == offset_r.val IN
            decode_value_at(param, data, offset)])
    ELSE decode_value_at(param, data, head_offset)

\* selector_from_signature: the first four bytes of keccak-256 of the string,
\* tabulated for the strings the descriptors and signatures of the model hold
selector_from_signature(canonical) ==
    CASE canonical = <<"t", "r", "a", "n", "s", "f", "e", "r", "(", "a", "d", "d", "r", "e", "s", "s", ",", "u", "i", "n", "t", "2", "5", "6", ")">> ->
            <<169, 5, 156, 187>>
      [] canonical = <<"t", "r", "a", "n", "s", "f", "e", "r", "(", "a", "d", "d", "r", "e", "s", "s", ",", " ", "u", "i", "n", "t", "2", "5", "6", ")">> ->
            <<157, 97, 210, 52>>
      [] canonical = <<"t", "r", "a", "n", "s", "f", "e", "r", "(", "a", "d", "d", "r", "e", "s", "s", ",", "u", "i", "n", "t", ")">> ->
            <<108, 185, 39, 216>>
      [] canonical = <<"t", "r", "a", "n", "s", "f", "e", "r", "(", "a", "d", "d", "r", "e", "s", "s", ",", "u", "i", "n", "t", "2", "5", "6">> ->
            <<48, 196, 138, 49>>
      [] canonical = <<"i", "n", "c", "r", "e", "a", "s", "e", "U", "n", "l", "o", "c", "k", "T", "i", "m", "e", "(", "u", "i", "n", "t", "2", "5", "6", ")">> ->
            <<124, 97, 111, 230>>
      [] canonical = <<"n", "o", "t", "e", "(", "s", "t", "r", "i", "n", "g", ")">> ->
            <<27, 53, 44, 67>>
      [] canonical = <<"f", "(", "(", "u", "i", "n", "t", "2", "5", "6", ",", "u", "i", "n", "t", "2", "5", "6", ")", ",", "u", "i", "n", "t", "2", "5", "6", ")">> ->
            <<84, 130, 19, 133>>
      [] canonical = <<"f", "(", "u", "i", "n", "t", "2", "5", "6", "[", "2", "]", ",", "u", "i", "n", "t", "2", "5", "6", ")">> ->
            <<222, 5, 134, 185>>
      [] canonical = <<"f", "(", "b", "y", "t", "e", "s", "3", "3", ")">> ->
            <<232, 208, 69, 7>>
      [] canonical = <<"f", "(", "s", "t", "r", "i", "n", "g", ")">> ->
            <<145, 225, 69, 239>>
      [] canonical = <<"f", "(", "u", "i", "n", "t", "2", "5", "6", "[", "]", ")">> ->
            <<123, 197, 187, 191>>
      [] canonical = <<"f", "(", "s", "t", "r", "i", "n", "g", "[", "0", "]", ")">> ->
            <<206, 85, 42, 32>>
      [] canonical = <<"f", "(", "s", "t", "r", "i", "n", "g", "[", "]", ")">> ->
            <<233, 204, 135, 128>>
      [] canonical = <<"f", "(", "b", "y", "t", "e", "s", "[", "]", ")">> ->
            <<208, 180, 124, 4>>
      [] canonical = <<"f", "(", "(", "u", "i", "n", "t", "2", "5", "6", ",", "s", "t", "r", "i", "n", "g", ")", ")">> ->
            <<194, 96, 18, 92>>
      [] canonical = <<"t", "r", "a", "n", "s", "f", "e", "r", " ", "(", "a", "d", "d", "r", "e", "s", "s", ",", "u", "i", "n", "t", "2", "5", "6", ")">> ->
            <<5, 251, 76, 246>>
      [] canonical = <<"f", "(", "u", "i", "n", "t", "2", "5", "6", ",", "i", "n", "t", "2", "5", "6", ")">> ->
            <<226, 149, 120, 224>>
      [] canonical = <<"f", "(", "(", "u", "i", "n", "t", "2", "5", "6", ",", "(", "b", "o", "o", "l", ",", "b", "y", "t", "e", "s", "4", ")", "[", "2", "]", ")", "[", "]", ",", "s", "t", "r", "i", "n", "g", "[", "3", "]", "[", "]", ")">> ->
            <<19, 170, 114, 49>>
      [] canonical = <<"f", "(", "u", "i", "n", "t", "8", "[", "2", "]", ")">> ->
            <<140, 10, 24, 63>>
      [] canonical = <<"f", "(", "(", ")", ")">> ->
            <<122, 148, 175, 111>>
      [] canonical = <<"f", "(", ")">> ->
            <<38, 18, 31, 240>>

parse_signature(sig0) ==
    LET sig == Trim(sig0)
        open == Find(sig, <<"(">>)
    IN  IF open = 0 THEN Err(InvalidSignature)
        ELSE IF ~EndsWith(sig, <<")">>) THEN Err(InvalidSignature)
        ELSE LET name == SubSeq(sig, 1, open - 1) IN
             IF name = <<>> THEN Err(InvalidSignature)
             ELSE LET params_str == SubSeq(sig, open + 1, Len(sig) - 1) IN
                  Let([params_r \in {IF params_str = <<>> THEN Ok(<<>>) ELSE parse_param_list(params_str)} |->
                      IF ~params_r.ok THEN params_r ELSE LET params == params_r.val IN
                  Let([canonical \in {name \o <<"(">> \o canonical_params(params) \o <<")">>} |->
                      Ok([name |-> name,
                          params |-> params,
                          canonical |-> canonical,
                          selector |-> selector_from_signature(canonical)])])])

HexChars == <<"0", "1", "2", "3", "4", "5", "6", "7", "8", "9", "a", "b", "c", "d", "e", "f">>

RECURSIVE hex_encode(_)
\* hex::encode
hex_encode(b) ==
    IF b = <<>> THEN <<>>
    ELSE <<HexChars[(Head(b) \div 16) + 1], HexChars[(Head(b) % 16) + 1]>> \o hex_encode(Tail(b))

RECURSIVE decode_head_loop(_, _, _, _)
\* the loop of decode_calldata over the parameters: the i-th head entry is
\* read at 32 * (i - 1)
decode_head_loop(params, data, i, args) ==
    IF i > Len(params) THEN Ok(args)
    ELSE Let([value_r \in {decode_value(params[i], data, USize(32 * (i - 1)))} |->
             IF ~value_r.ok THEN value_r ELSE LET value == value_r.val IN
             decode_head_loop(params, data, i + 1,
                              Append(args, [index |-> i - 1,
                                            param_type |-> params[i],
                                            value |-> value]))])

\* a decode_calldata that does not compare the selectors
decode_calldata_any_selector(sig, calldata) ==
    IF Len(calldata) < 4 THEN Err(CalldataTooShort(USize(4), USize(Len(calldata))))
    ELSE Let([args_r \in {decode_head_loop(sig.params, Drop(calldata, 5), 1, <<>>)} |->
             IF ~args_r.ok THEN args_r
             ELSE Ok([function_name |-> sig.name, selector |-> sig.selector,
                      args |-> args_r.val])])

decode_calldata(sig, calldata) ==
    IF Len(calldata) < 4 THEN Err(CalldataTooShort(USize(4), USize(Len(calldata))))
    ELSE LET actual_selector == SubSeq(calldata, 1, 4) IN
         IF actual_selector # sig.selector
         THEN Err(SelectorMismatch(hex_encode(sig.selector), hex_encode(actual_selector)))
         ELSE LET data == Drop(calldata, 5) IN
              Let([args_r \in {decode_head_loop(sig.params, data, 1, <<>>)} |->
                  IF ~args_r.ok THEN args_r ELSE LET args == args_r.val IN
                  Ok([function_name |-> sig.name,
                      selector |-> sig.selector,
                      args |-> args])])

(***************************************************************************)
(* Numbers as text. A BigUint and a u64 are read and written as decimal    *)
(* numerals (strings of digits without leading zeros), which is exact over *)
(* the whole 256-bit range.                                                *)
(***************************************************************************)
\* "0x" followed by hex::encode
Hex0x(b) == <<"0", "x">> \o hex_encode(b)

RECURSIVE StripZeroBytes(_)
StripZeroBytes(b) == IF b # <<>> /\ Head(b) = 0 THEN StripZeroBytes(Tail(b)) ELSE b

RECURSIVE DivBytesBy10(_, _, _)
\* long division of a big-endian byte string by ten: the quotient bytes and
\* the remainder
DivBytesBy10(b, rem, quot) ==
    IF b = <<>> THEN [quot |-> quot, rem |-> rem]
    ELSE LET cur == rem * 256 + Head(b) IN
         DivBytesBy10(Tail(b), cur % 10, Append(quot, cur \div 10))

RECURSIVE BytesToDecimal(_, _)
BytesToDecimal(b, acc) ==
    IF b = <<>> THEN (IF acc = <<>> THEN <<"0">> ELSE acc)
    ELSE LET d == DivBytesBy10(b, 0, <<>>) IN
         BytesToDecimal(StripZeroBytes(d.quot), <<DigitChars[d.rem + 1]>> \o acc)

\* BigUint::from_bytes_be(bytes).to_string()
biguint_to_string(bytes) == BytesToDecimal(StripZeroBytes(bytes), <<>>)

\* a <= b for two decimal numerals without leading zeros
RECURSIVE LexLe(_, _)
LexLe(a, b) ==
    IF a = <<>> THEN TRUE
    ELSE IF DigitVal(Head(a)) # DigitVal(Head(b)) THEN DigitVal(Head(a)) < DigitVal(Head(b))
    ELSE LexLe(Tail(a), Tail(b))

DecLe(a, b) == Len(a) < Len(b) \/ (Len(a) = Len(b) /\ LexLe(a, b))

\* u64::MAX and i64::MAX
U64MaxDec ==
    <<"1", "8", "4", "4", "6", "7", "4", "4", "0", "7", "3", "7", "0", "9", "5", "5", "1", "6", "1", "5">>

I64MaxDec ==
    <<"9", "2", "2", "3", "3", "7", "2", "0", "3", "6", "8", "5", "4", "7", "7", "5", "8", "0", "7">>

IsNumeral(s) == s # <<>> /\ \A i \in 1..Len(s) : IsDigit(s[i])

(***************************************************************************)
(* Option and serde_json::Value                                            *)
(***************************************************************************)
None == [some |-> FALSE]

Some(x) == [some |-> TRUE, val |-> x]

JString(s) == [j |-> "String", s |-> s]

JBool(b) == [j |-> "Bool", b |-> b]

\* a JSON number, by its decimal numeral (the numbers of the model are
\* non-negative integers)
JNumber(n) == [j |-> "Number", n |-> n]

JNull == [j |-> "Null"]

JArray(items) == [j |-> "Array", items |-> items]

\* keys and vals are sequences of the same length
JObject(keys, vals) == [j |-> "Object", keys |-> keys, vals |-> vals]

RECURSIVE JsonEq(_, _)
\* serde_json::Value's PartialEq
JsonEq(a, b) ==
    /\ a.j = b.j
    /\ CASE a.j = "String" -> a.s = b.s
         [] a.j = "Bool" -> a.b = b.b
         [] a.j = "Number" -> a.n = b.n
         [] a.j = "Null" -> TRUE
         [] a.j = "Array" ->
                /\ Len(a.items) = Len(b.items)
                /\ \A i \in 1..Len(a.items) : JsonEq(a.items[i], b.items[i])
         [] a.j = "Object" ->
                /\ Len(a.keys) = Len(b.keys)
                /\ \A i \in 1..Len(a.keys) :
                      \E k \in 1..Len(b.keys) :
                          b.keys[k] = a.keys[i] /\ JsonEq(a.vals[i], b.vals[k])

RECURSIVE to_json_value(_)
\* ArgumentValue::to_json_value
to_json_value(val) ==
    CASE val.v \in {"Address", "Uint", "Int", "Bytes", "FixedBytes"} -> JString(Hex0x(val.bytes))
      [] val.v = "Bool" -> JBool(val.b)
      [] val.v = "String" -> JString(val.s)
      [] val.v \in {"Array", "Tuple"} ->
            JArray([i \in 1..Len(val.items) |-> to_json_value(val.items[i])])

(***************************************************************************)
(* types/display.rs: the descriptor's display section                      *)
(***************************************************************************)
\* DisplayField, by variant
Reference(reference) == [f |-> "Reference", reference |-> reference]

Group(label, fields) == [f |-> "Group", label |-> label, iteration |-> "Sequential", fields |-> fields]

Simple(path, label, format, params, visible) ==
    [f |-> "Simple", path |-> path, label |-> label, format |-> format, params |-> params,
     visible |-> visible]

\* VisibleRule, by variant
Always == [r |-> "Always"]

VBool(b) == [r |-> "Bool", b |-> b]

Named(s) == [r |-> "Named", s |-> s]

Condition(if_not_in, must_be) == [r |-> "Condition", if_not_in |-> if_not_in, must_be |-> must_be]

\* FormatParams with every member None
NoParams ==
    [token_path |-> None, native_currency_address |-> None, chain_id |-> None,
     chain_id_path |-> None, enum_path |-> None, map_reference |-> None, encryption |-> None]

\* VisibleCondition::evaluate
evaluate(cond, value) ==
    IF cond.if_not_in.some
       /\ \E i \in 1..Len(cond.if_not_in.val) : JsonEq(cond.if_not_in.val[i], value)
    THEN FALSE
    ELSE IF cond.must_be.some
            /\ ~\E i \in 1..Len(cond.must_be.val) : JsonEq(cond.must_be.val[i], value)
    THEN FALSE
    ELSE TRUE

\* HashMap::get on a map that is only looked up: a function on its keys
MapGet(map, key) == IF key \in DOMAIN map THEN Some(map[key]) ELSE None

\* HashMap::get on a map that is also iterated: the sequence of its
\* [key, value] entries in iteration order, the keys distinct
EntriesGet(entries, key) ==
    IF \E i \in 1..Len(entries) : entries[i].key = key
    THEN Some((entries[CHOOSE i \in 1..Len(entries) : entries[i].key = key]).value)
    ELSE None

(***************************************************************************)
(* address_book.rs and token.rs                                            *)
(***************************************************************************)
RECURSIVE InsertAll(_, _)
\* the entries (a sequence of [key, value]) inserted in order into a map,
\* the keys lowercased
InsertAll(map, entries) ==
    IF entries = <<>> THEN map
    ELSE InsertAll([k \in DOMAIN map \cup {ToLowercase(entries[1].key)} |->
                       IF k = ToLowercase(entries[1].key) THEN entries[1].value ELSE map[k]],
                   Tail(entries))

\* AddressBook::from_descriptor. deployments is the sequence of the context's
\* deployment addresses.
from_descriptor(deployments, metadata) ==
    LET named == IF metadata.contract_name.some
                 THEN InsertAll(<<>>, [i \in 1..Len(deployments) |->
                                         [key |-> deployments[i],
                                          value |-> metadata.contract_name.val]])
                 ELSE <<>>
    IN  InsertAll(named, metadata.address_book)

\* AddressBook::resolve
resolve(book, address) == MapGet(book, ToLowercase(address))

\* TokenLookupKey::new; chain_id is the decimal numeral of the u64
TokenLookupKey(chain_id, address) ==
    <<"e", "i", "p", "1", "5", "5", ":">> \o chain_id
        \o <<"/", "e", "r", "c", "2", "0", ":">> \o ToLowercase(address)

\* TokenSource::lookup of a StaticTokenSource: a map from keys to TokenMeta
lookup(token_source, key) == MapGet(token_source, key)

\* AddressBook::empty
empty == <<>>

\* HashMap::insert of the address as it is given
insert_as_given(book, address, label) ==
    [k \in DOMAIN book \cup {address} |-> IF k = address THEN label ELSE book[k]]

\* AddressBook::insert
insert(book, address, label) ==
    [k \in DOMAIN book \cup {ToLowercase(address)} |->
        IF k = ToLowercase(address) THEN label ELSE book[k]]

\* a merge in which the other book's entries win
merge_overwriting(book, other) ==
    [k \in DOMAIN book \cup DOMAIN other |-> IF k \in DOMAIN other THEN other[k] ELSE book[k]]

\* AddressBook::merge: entry(addr).or_insert_with(label) for each entry of other
merge(book, other) ==
    [k \in DOMAIN book \cup DOMAIN other |-> IF k \in DOMAIN book THEN book[k] ELSE other[k]]

\* StaticTokenSource::new
new == <<>>

\* StaticTokenSource::insert
token_insert(token_source, chain_id, address, meta) ==
    [k \in DOMAIN token_source \cup {TokenLookupKey(chain_id, address)} |->
        IF k = TokenLookupKey(chain_id, address) THEN meta ELSE token_source[k]]

(***************************************************************************)
(* engine.rs: path resolution and visibility                               *)
(***************************************************************************)
RECURSIVE Split(_, _)
\* str::split(char)
Split(s, c) ==
    LET at == Find(s, <<c>>) IN
    IF at = 0 THEN <<s>> ELSE <<SubSeq(s, 1, at - 1)>> \o Split(Drop(s, at + 1), c)

\* str::strip_prefix(p).unwrap_or(s)
StripPrefixOr(s, p) == IF StartsWith(s, p) THEN Drop(s, Len(p) + 1) ELSE s

\* Vec::get by a parsed index
GetAt(items, index) == IF index < Len(items) THEN Some(items[index + 1]) ELSE None

RECURSIVE navigate_value(_, _)
navigate_value(value, segments) ==
    IF segments = <<>> THEN Some(value)
    ELSE IF value.v \in {"Tuple", "Array"} THEN
        Let([index \in {parse_usize(segments[1])} |->
            IF ~index.ok THEN None
            ELSE Let([member \in {GetAt(value.items, index.val)} |->
                     IF member.some THEN navigate_value(member.val, Tail(segments)) ELSE None])])
    ELSE None

\* the "args[N]" branch of resolve_path
resolve_args_index(decoded, segments) ==
    LET seg == segments[1] IN
    IF StartsWith(seg, <<"a", "r", "g", "s", "[">>) /\ EndsWith(seg, <<"]">>) /\ Len(seg) >= 6 THEN
        Let([index \in {parse_usize(SubSeq(seg, 6, Len(seg) - 1))} |->
            IF index.ok /\ index.val < Len(decoded.args) THEN
                (IF Len(segments) = 1 THEN Some(decoded.args[index.val + 1].value)
                 ELSE navigate_value(decoded.args[index.val + 1].value, Tail(segments)))
            ELSE None])
    ELSE None

resolve_path(decoded, path0) ==
    Let([path \in {StripPrefixOr(Trim(path0), <<"@", ".">>)} |->
    Let([whole \in {parse_usize(path)} |->
        IF whole.ok THEN
            (IF whole.val < Len(decoded.args) THEN Some(decoded.args[whole.val + 1].value)
             ELSE None)
        ELSE Let([segments \in {Split(path, ".")} |->
             Let([first \in {parse_usize(segments[1])} |->
                 IF first.ok /\ first.val < Len(decoded.args) THEN
                     (IF Len(segments) = 1 THEN Some(decoded.args[first.val + 1].value)
                      ELSE navigate_value(decoded.args[first.val + 1].value, Tail(segments)))
                 ELSE resolve_args_index(decoded, segments)])])])])

\* check_visibility as it would be if a condition hid a field whose path
\* does not resolve
check_visibility_hiding(rule, value) ==
    CASE rule.r = "Always" -> TRUE
      [] rule.r = "Bool" -> rule.b
      [] rule.r = "Named" -> rule.s # <<"n", "e", "v", "e", "r">>
      [] rule.r = "Condition" ->
            IF value.some THEN evaluate(rule, to_json_value(value.val)) ELSE FALSE

\* check_visibility as it would be if `visible: false` did not hide
check_visibility_showing(rule, value) ==
    CASE rule.r = "Always" -> TRUE
      [] rule.r = "Bool" -> TRUE
      [] rule.r = "Named" -> rule.s # <<"n", "e", "v", "e", "r">>
      [] rule.r = "Condition" ->
            IF value.some THEN evaluate(rule, to_json_value(value.val)) ELSE TRUE

\* check_visibility; value is the Option the path resolved to
check_visibility(rule, value) ==
    CASE rule.r = "Always" -> TRUE
      [] rule.r = "Bool" -> rule.b
      [] rule.r = "Named" -> rule.s # <<"n", "e", "v", "e", "r">>
      [] rule.r = "Condition" ->
            IF value.some THEN evaluate(rule, to_json_value(value.val)) ELSE TRUE

(***************************************************************************)
(* engine.rs: the formats                                                  *)
(***************************************************************************)
\* chain_name; chain_id is the decimal numeral of the u64
chain_name(chain_id) ==
    CASE chain_id = <<"1">> -> <<"E", "t", "h", "e", "r", "e", "u", "m">>
      [] chain_id = <<"1", "0">> -> <<"O", "p", "t", "i", "m", "i", "s", "m">>
      [] chain_id = <<"5", "6">> -> <<"B", "N", "B", " ", "C", "h", "a", "i", "n">>
      [] chain_id = <<"1", "0", "0">> -> <<"G", "n", "o", "s", "i", "s">>
      [] chain_id = <<"1", "3", "7">> -> <<"P", "o", "l", "y", "g", "o", "n">>
      [] chain_id = <<"2", "5", "0">> -> <<"F", "a", "n", "t", "o", "m">>
      [] chain_id = <<"3", "2", "4">> -> <<"z", "k", "S", "y", "n", "c", " ", "E", "r", "a">>
      [] chain_id = <<"8", "4", "5", "3">> -> <<"B", "a", "s", "e">>
      [] chain_id = <<"4", "2", "1", "6", "1">> -> <<"A", "r", "b", "i", "t", "r", "u", "m", " ", "O", "n", "e">>
      [] chain_id = <<"4", "2", "1", "7", "0">> -> <<"A", "r", "b", "i", "t", "r", "u", "m", " ", "N", "o", "v", "a">>
      [] chain_id = <<"4", "3", "1", "1", "4">> -> <<"A", "v", "a", "l", "a", "n", "c", "h", "e">>
      [] chain_id = <<"5", "9", "1", "4", "4">> -> <<"L", "i", "n", "e", "a">>
      [] chain_id = <<"5", "3", "4", "3", "5", "2">> -> <<"S", "c", "r", "o", "l", "l">>
      [] chain_id = <<"7", "7", "7", "7", "7", "7", "7">> -> <<"Z", "o", "r", "a">>
      [] OTHER -> <<"C", "h", "a", "i", "n", " ">> \o chain_id

\* native_token_meta; chain_id is the decimal numeral of the u64
native_token_meta(chain_id) ==
    LET names ==
          CASE chain_id \in {<<"1">>, <<"5">>, <<"1", "1", "1", "5", "5", "1", "1", "1">>} -> <<<<"E", "T", "H">>, <<"E", "t", "h", "e", "r">>>>
            [] chain_id \in {<<"1", "3", "7">>, <<"8", "0", "0", "0", "1">>} -> <<<<"M", "A", "T", "I", "C">>, <<"P", "o", "l", "y", "g", "o", "n">>>>
            [] chain_id \in {<<"5", "6">>, <<"9", "7">>} -> <<<<"B", "N", "B">>, <<"B", "N", "B">>>>
            [] chain_id \in {<<"4", "3", "1", "1", "4">>, <<"4", "3", "1", "1", "3">>} -> <<<<"A", "V", "A", "X">>, <<"A", "v", "a", "l", "a", "n", "c", "h", "e">>>>
            [] chain_id \in {<<"2", "5", "0">>} -> <<<<"F", "T", "M">>, <<"F", "a", "n", "t", "o", "m">>>>
            [] OTHER -> <<<<"E", "T", "H">>, <<"E", "t", "h", "e", "r">>>>
    IN  [symbol |-> names[1], decimals |-> 18, name |-> names[2]]

RECURSIVE format_raw(_)
format_raw(val) ==
    CASE val.v = "Address" -> Hex0x(val.bytes)
      [] val.v \in {"Uint", "Int"} -> biguint_to_string(val.bytes)
      [] val.v = "Bool" -> IF val.b THEN <<"t", "r", "u", "e">> ELSE <<"f", "a", "l", "s", "e">>
      [] val.v \in {"Bytes", "FixedBytes"} -> Hex0x(val.bytes)
      [] val.v = "String" -> val.s
      [] val.v = "Array" ->
            <<"[">> \o Join([i \in 1..Len(val.items) |-> format_raw(val.items[i])], <<",", " ">>)
                    \o <<"]">>
      [] val.v = "Tuple" ->
            <<"(">> \o Join([i \in 1..Len(val.items) |-> format_raw(val.items[i])], <<",", " ">>)
                    \o <<")">>

\* eip55_checksum: the lowercase hex digits of the address, each letter in
\* upper case iff the matching nibble of keccak-256 of those digits is 8 or
\* more; tabulated for the addresses the model decodes
eip55_checksum(addr) ==
    CASE addr = <<90, 174, 182, 5, 63, 62, 148, 201, 185, 160, 159, 51, 102, 148, 53, 231, 239, 27, 234, 237>> ->
            <<"0", "x", "5", "a", "A", "e", "b", "6", "0", "5", "3", "F", "3", "E", "9", "4", "C", "9", "b", "9", "A", "0", "9", "f", "3", "3", "6", "6", "9", "4", "3", "5", "E", "7", "E", "f", "1", "B", "e", "A", "e", "d">>
      [] addr = <<251, 105, 22, 9, 92, 161, 223, 96, 187, 121, 206, 146, 206, 62, 167, 76, 55, 197, 211, 89>> ->
            <<"0", "x", "f", "B", "6", "9", "1", "6", "0", "9", "5", "c", "a", "1", "d", "f", "6", "0", "b", "B", "7", "9", "C", "e", "9", "2", "c", "E", "3", "E", "a", "7", "4", "c", "3", "7", "c", "5", "d", "3", "5", "9">>

format_address(val) == IF val.v = "Address" THEN eip55_checksum(val.bytes) ELSE format_raw(val)

format_address_name(ctx, val) ==
    IF val.v = "Address" THEN
        Let([label \in {resolve(ctx.address_book, Hex0x(val.bytes))} |->
            IF label.some THEN label.val ELSE eip55_checksum(val.bytes)])
    ELSE format_raw(val)

format_number(val) ==
    IF val.v \in {"Uint", "Int"} THEN biguint_to_string(val.bytes) ELSE format_raw(val)

format_amount(val) ==
    IF val.v \in {"Uint", "Int"} THEN Ok(biguint_to_string(val.bytes)) ELSE Ok(format_raw(val))

\* str::trim_end_matches('0')
TrimEndZeros(s) ==
    IF \A i \in 1..Len(s) : s[i] = "0" THEN <<>>
    ELSE SubSeq(s, 1, CHOOSE i \in 1..Len(s) :
                        s[i] # "0" /\ \A j \in (i + 1)..Len(s) : s[j] = "0")

\* format_with_decimals with the fractional digits left as they are
format_with_decimals_untrimmed(amount, decimals) ==
    IF decimals = 0 THEN amount
    ELSE IF Len(amount) <= decimals THEN
        <<"0", ".">> \o [i \in 1..(decimals - Len(amount)) |-> "0"] \o amount
    ELSE SubSeq(amount, 1, Len(amount) - decimals) \o <<".">>
            \o Drop(amount, Len(amount) - decimals + 1)

\* format_with_decimals; amount is the decimal numeral of the BigUint
format_with_decimals(amount, decimals) ==
    LET s == amount IN
    IF decimals = 0 THEN s
    ELSE IF Len(s) <= decimals THEN
        LET zeros == decimals - Len(s)
            res == <<"0", ".">> \o [i \in 1..zeros |-> "0"] \o s
            trimmed == TrimEndZeros(res)
        IN  IF EndsWith(trimmed, <<".">>) THEN trimmed \o <<"0">> ELSE trimmed
    ELSE LET integer_part == SubSeq(s, 1, Len(s) - decimals)
             decimal_part == Drop(s, Len(s) - decimals + 1)
             trimmed == TrimEndZeros(decimal_part)
         IN  IF trimmed = <<>> THEN integer_part
             ELSE integer_part \o <<".">> \o trimmed

\* u64::try_from of a BigUint given by its bytes: the decimal numeral, or None
u64_try_from(bytes) ==
    Let([n \in {biguint_to_string(bytes)} |-> IF DecLe(n, U64MaxDec) THEN Some(n) ELSE None])

\* resolve_chain_id; params is the Option<&FormatParams>
resolve_chain_id(ctx, params) ==
    IF params.some /\ params.val.chain_id.some THEN params.val.chain_id.val
    ELSE IF params.some /\ params.val.chain_id_path.some THEN
        Let([v \in {resolve_path(ctx.decoded, params.val.chain_id_path.val)} |->
        Let([cid \in {IF v.some /\ v.val.v = "Uint" THEN u64_try_from(v.val.bytes) ELSE None} |->
            IF cid.some THEN cid.val ELSE ctx.chain_id])])
    ELSE ctx.chain_id

(***************************************************************************)
(* The time crate, as format_date uses it                                  *)
(***************************************************************************)
\* the largest timestamp OffsetDateTime::from_unix_timestamp takes
\* (9999-12-31 23:59:59), and the magnitude of the smallest
MaxTimestampDec == <<"2", "5", "3", "4", "0", "2", "3", "0", "0", "7", "9", "9">>

MinTimestampMagDec == <<"3", "7", "7", "7", "0", "5", "1", "1", "6", "8", "0", "0">>

RECURSIVE DivNumeral(_, _, _, _)
\* long division of a decimal numeral by a small integer
DivNumeral(s, d, rem, quot) ==
    IF s = <<>> THEN [quot |-> quot, rem |-> rem]
    ELSE LET cur == rem * 10 + DigitVal(Head(s)) IN
         DivNumeral(Tail(s), d, cur % d, quot * 10 + (cur \div d))

PadZero(n, width) ==
    LET t == NatToString(n) IN
    IF Len(t) >= width THEN t ELSE [i \in 1..(width - Len(t)) |-> "0"] \o t

\* the civil date of a day number counted from 1970-01-01
civil_from_days(days) ==
    LET z == days + 719468
        era == z \div 146097
        doe == z - era * 146097
        yoe == (doe - (doe \div 1460) + (doe \div 36524) - (doe \div 146096)) \div 365
        doy == doe - (365 * yoe + (yoe \div 4) - (yoe \div 100))
        mp == (5 * doy + 2) \div 153
        d == doy - ((153 * mp + 2) \div 5) + 1
        m == IF mp < 10 THEN mp + 3 ELSE mp - 9
        y == yoe + era * 400 + (IF m <= 2 THEN 1 ELSE 0)
    IN  [year |-> y, month |-> m, day |-> d]

\* the Render message for a timestamp out of range; the description of the
\* range the time crate appends to it is left out
invalid_timestamp == <<"i", "n", "v", "a", "l", "i", "d", " ", "t", "i", "m", "e", "s", "t", "a", "m", "p", ":", " ">>

\* OffsetDateTime::from_unix_timestamp(ts) formatted with
\* "[year]-[month]-[day] [hour]:[minute]:[second] UTC"; the timestamp is
\* given by its sign and the decimal numeral of its magnitude
format_timestamp(neg, mag) ==
    IF ~DecLe(mag, IF neg THEN MinTimestampMagDec ELSE MaxTimestampDec)
    THEN Err(RenderError(invalid_timestamp))
    ELSE Let([qr \in {DivNumeral(mag, 86400, 0, 0)} |->
         Let([days \in {IF ~neg THEN qr.quot ELSE IF qr.rem = 0 THEN 0 - qr.quot ELSE 0 - qr.quot - 1} |->
         Let([secs \in {IF ~neg \/ qr.rem = 0 THEN qr.rem ELSE 86400 - qr.rem} |->
         Let([date \in {civil_from_days(days)} |->
         Let([year \in {IF date.year < 0 THEN <<"-">> \o PadZero(0 - date.year, 4)
             ELSE PadZero(date.year, 4)} |->
             Ok(year \o <<"-">> \o PadZero(date.month, 2) \o <<"-">> \o PadZero(date.day, 2)
                 \o <<" ">> \o PadZero(secs \div 3600, 2) \o <<":">>
                 \o PadZero((secs % 3600) \div 60, 2)
                 \o <<":">> \o PadZero(secs % 60, 2) \o <<" ", "U", "T", "C">>)])])])])])

format_date(val) ==
    IF val.v = "Uint" THEN
        Let([n \in {biguint_to_string(val.bytes)} |->
            format_timestamp(FALSE, IF DecLe(n, I64MaxDec) THEN n ELSE <<"0">>)])
    ELSE Ok(format_raw(val))

format_chain_id(val) ==
    IF val.v = "Uint" THEN
        Let([cid \in {u64_try_from(val.bytes)} |->
            Ok(chain_name(IF cid.some THEN cid.val ELSE <<"0">>))])
    ELSE Ok(format_raw(val))

\* the token metadata format_token_amount finds: an Option<TokenMeta>
token_amount_meta(ctx, params, lookup_chain_id) ==
    IF params.some /\ params.val.token_path.some THEN
        Let([token_addr \in {resolve_path(ctx.decoded, params.val.token_path.val)} |->
            IF token_addr.some /\ token_addr.val.v = "Address" THEN
                Let([addr_hex \in {Hex0x(token_addr.val.bytes)} |->
                Let([native \in {params.val.native_currency_address} |->
                    IF native.some /\ ToLowercase(addr_hex) = ToLowercase(native.val)
                    THEN Some(native_token_meta(lookup_chain_id))
                    ELSE lookup(ctx.token_source, TokenLookupKey(lookup_chain_id, addr_hex))])])
            ELSE None])
    ELSE None

\* The formats that may append a warning take the warnings so far and return
\* [r |-> the Result, w |-> the warnings afterwards].
format_token_amount(ctx, warnings, val, params) ==
    IF val.v \notin {"Uint", "Int"} THEN [r |-> Ok(format_raw(val)), w |-> warnings]
    ELSE Let([raw_amount \in {biguint_to_string(val.bytes)} |->
         Let([lookup_chain_id \in {resolve_chain_id(ctx, params)} |->
         Let([token_meta \in {token_amount_meta(ctx, params, lookup_chain_id)} |->
             IF token_meta.some THEN
                 [r |-> Ok(format_with_decimals(raw_amount, token_meta.val.decimals)
                           \o <<" ">> \o token_meta.val.symbol),
                  w |-> warnings]
             ELSE [r |-> Ok(raw_amount),
                   w |-> Append(warnings, <<"t", "o", "k", "e", "n", " ", "m", "e", "t", "a", "d", "a", "t", "a", " ", "n", "o", "t", " ", "f", "o", "u", "n", "d">>)]])])])

format_token_ticker(ctx, warnings, val, params) ==
    Let([lookup_chain_id \in {resolve_chain_id(ctx, params)} |->
    Let([meta \in {IF val.v = "Address"
        THEN lookup(ctx.token_source, TokenLookupKey(lookup_chain_id, Hex0x(val.bytes)))
        ELSE None} |->
        IF meta.some THEN [r |-> Ok(meta.val.symbol), w |-> warnings]
        ELSE [r |-> Ok(format_raw(val)),
              w |-> Append(warnings, <<"t", "o", "k", "e", "n", " ", "t", "i", "c", "k", "e", "r", " ", "n", "o", "t", " ", "f", "o", "u", "n", "d">>)]])])

format_enum(ctx, val, params) ==
    Let([raw \in {format_raw(val)} |->
    Let([enum_def \in {IF params.some /\ params.val.enum_path.some
        THEN MapGet(ctx.descriptor.metadata.enums, params.val.enum_path.val)
        ELSE None} |->
    Let([label \in {IF enum_def.some THEN MapGet(enum_def.val, raw) ELSE None} |->
        Ok(IF label.some THEN label.val ELSE raw)])])])

\* resolve_map that finds no entry
resolve_map_none(ctx, map_ref, val) == None

resolve_map(ctx, map_ref, val) ==
    Let([map_def \in {MapGet(ctx.descriptor.metadata.maps, map_ref)} |->
        IF map_def.some THEN MapGet(map_def.val, format_raw(val)) ELSE None])

\* the Debug form of a FieldFormat, which the "not yet implemented" warning names
FormatDebug(fmt) ==
    CASE fmt = "Raw" -> <<"R", "a", "w">>
      [] fmt = "Amount" -> <<"A", "m", "o", "u", "n", "t">>
      [] fmt = "Calldata" -> <<"C", "a", "l", "l", "d", "a", "t", "a">>
      [] fmt = "NftName" -> <<"N", "f", "t", "N", "a", "m", "e">>
      [] fmt = "Duration" -> <<"D", "u", "r", "a", "t", "i", "o", "n">>
      [] fmt = "Unit" -> <<"U", "n", "i", "t">>

\* format_value; value, format and params are Options
format_value(ctx, warnings, value, format, params, path) ==
    IF ~value.some THEN
        [r |-> Ok(<<"<", "u", "n", "r", "e", "s", "o", "l", "v", "e", "d", ">">>),
         w |-> Append(warnings, <<"c", "o", "u", "l", "d", " ", "n", "o", "t", " ", "r", "e", "s", "o", "l", "v", "e", " ", "p", "a", "t", "h", ":", " ">> \o path)]
    ELSE IF params.some /\ params.val.encryption.some
            /\ params.val.encryption.val.fallback_label.some THEN
        [r |-> Ok(params.val.encryption.val.fallback_label.val), w |-> warnings]
    ELSE Let([val \in {value.val} |->
         Let([mapped \in {IF params.some /\ params.val.map_reference.some
             THEN resolve_map(ctx, params.val.map_reference.val, val)
             ELSE None} |->
             IF mapped.some THEN [r |-> Ok(mapped.val), w |-> warnings]
             ELSE IF ~format.some THEN [r |-> Ok(format_raw(val)), w |-> warnings]
             ELSE CASE format.val = "TokenAmount" -> format_token_amount(ctx, warnings, val, params)
                    [] format.val = "Amount" -> [r |-> format_amount(val), w |-> warnings]
                    [] format.val = "Date" -> [r |-> format_date(val), w |-> warnings]
                    [] format.val = "Enum" -> [r |-> format_enum(ctx, val, params), w |-> warnings]
                    [] format.val = "Address" -> [r |-> Ok(format_address(val)), w |-> warnings]
                    [] format.val = "AddressName" ->
                          [r |-> Ok(format_address_name(ctx, val)), w |-> warnings]
                    [] format.val = "Number" -> [r |-> Ok(format_number(val)), w |-> warnings]
                    [] format.val = "Raw" -> [r |-> Ok(format_raw(val)), w |-> warnings]
                    [] format.val = "TokenTicker" -> format_token_ticker(ctx, warnings, val, params)
                    [] format.val = "ChainId" -> [r |-> format_chain_id(val), w |-> warnings]
                    [] format.val \in {"Calldata", "NftName", "Duration", "Unit"} ->
                          [r |-> Ok(format_raw(val)),
                           w |-> Append(warnings, <<"f", "o", "r", "m", "a", "t", " ">> \o FormatDebug(format.val)
                                                  \o <<" ", "n", "o", "t", " ", "y", "e", "t", " ", "i", "m", "p", "l", "e", "m", "e", "n", "t", "e", "d">>)]])])

(***************************************************************************)
(* engine.rs: the field walker                                             *)
(***************************************************************************)
\* an Item as it would be if it were labelled with its value
Item_mislabelled(label, value) == [e |-> "Item", item |-> [label |-> value, value |-> value]]

\* DisplayEntry, by variant; an item is a DisplayItem [label, value]
Item(label, value) == [e |-> "Item", item |-> [label |-> label, value |-> value]]

GroupEntry(label, iteration, items) ==
    [e |-> "Group", label |-> label, iteration |-> iteration, items |-> items]

\* resolve_reference
resolve_reference(descriptor, reference) ==
    IF StartsWith(reference, <<"#", "/", "d", "e", "f", "i", "n", "i", "t", "i", "o", "n", "s", "/">>)
    THEN MapGet(descriptor.display.definitions, Drop(reference, 15))
    ELSE None

\* the items a list of entries holds, a group replaced by its items
RECURSIVE FlattenEntries(_)
FlattenEntries(entries) ==
    IF entries = <<>> THEN <<>>
    ELSE (IF entries[1].e = "Item" THEN <<entries[1].item>> ELSE entries[1].items)
         \o FlattenEntries(Tail(entries))

\* the number of render_fields frames the call stack holds
StackDepth == 8

RECURSIVE render_fields(_, _, _, _)
RECURSIVE render_fields_loop(_, _, _, _, _, _)
RECURSIVE render_group_loop(_, _, _, _, _, _)

\* render_field_group as it would be if a group without items were kept
render_field_group_keeping(ctx, warnings, group, depth) ==
    Let([items_r \in {render_group_loop(ctx, warnings, group.fields, 1, <<>>, depth)} |->
        IF ~items_r.r.ok THEN items_r
        ELSE [r |-> Ok(Some(GroupEntry(group.label, group.iteration, items_r.r.val))),
              w |-> items_r.w]])

\* render_field_group: Ok(None) for a group without items
render_field_group(ctx, warnings, group, depth) ==
    Let([items_r \in {render_group_loop(ctx, warnings, group.fields, 1, <<>>, depth)} |->
        IF ~items_r.r.ok THEN items_r
        ELSE LET items == items_r.r.val  w == items_r.w IN
        IF items = <<>> THEN [r |-> Ok(None), w |-> w]
        ELSE [r |-> Ok(Some(GroupEntry(group.label, group.iteration, items))), w |-> w]])

RECURSIVE render_group_loop_dropping(_, _, _, _, _, _)
\* render_group_loop as it would be if a field of a group that fails to
\* render were left out of the group instead of ending the render
render_group_loop_dropping(ctx, warnings, fields, i, items, depth) ==
    IF i > Len(fields) THEN [r |-> Ok(items), w |-> warnings]
    ELSE LET sub_entries == render_fields(ctx, warnings, <<fields[i]>>, depth) IN
         IF ~sub_entries.r.ok
         THEN render_group_loop_dropping(ctx, warnings, fields, i + 1, items, depth)
         ELSE render_group_loop_dropping(ctx, sub_entries.w, fields, i + 1,
                                         items \o FlattenEntries(sub_entries.r.val), depth)

\* the loop of render_field_group over the fields of the group
render_group_loop(ctx, warnings, fields, i, items, depth) ==
    IF i > Len(fields) THEN [r |-> Ok(items), w |-> warnings]
    ELSE Let([sub_entries_r \in {render_fields(ctx, warnings, <<fields[i]>>, depth)} |->
             IF ~sub_entries_r.r.ok THEN sub_entries_r
             ELSE LET sub_entries == sub_entries_r.r.val  w == sub_entries_r.w IN
             render_group_loop(ctx, w, fields, i + 1,
                               items \o FlattenEntries(sub_entries), depth)])

\* the loop of render_fields over the fields
render_fields_loop(ctx, warnings, fields, i, entries, depth) ==
    IF i > Len(fields) THEN [r |-> Ok(entries), w |-> warnings]
    ELSE LET field == fields[i] IN
         CASE field.f = "Reference" ->
                Let([resolved \in {resolve_reference(ctx.descriptor, field.reference)} |->
                    IF resolved.some THEN
                        Let([sub_r \in {render_fields(ctx, warnings, <<resolved.val>>, depth)} |->
                            IF ~sub_r.r.ok THEN sub_r
                            ELSE LET sub == sub_r.r.val  w == sub_r.w IN
                             render_fields_loop(ctx, w, fields, i + 1, entries \o sub, depth)])
                    ELSE render_fields_loop(ctx,
                            Append(warnings, <<"u", "n", "r", "e", "s", "o", "l", "v", "e", "d", " ", "r", "e", "f", "e", "r", "e", "n", "c", "e", ":", " ">> \o field.reference),
                            fields, i + 1, entries, depth)])
           [] field.f = "Group" ->
                Let([entry_r \in {render_field_group(ctx, warnings, field, depth)} |->
                    IF ~entry_r.r.ok THEN entry_r
                    ELSE LET entry == entry_r.r.val  w == entry_r.w IN
                     render_fields_loop(ctx, w, fields, i + 1,
                         IF entry.some THEN Append(entries, entry.val) ELSE entries, depth)])
           [] field.f = "Simple" ->
                Let([value \in {resolve_path(ctx.decoded, field.path)} |->
                    IF ~check_visibility(field.visible, value)
                    THEN render_fields_loop(ctx, warnings, fields, i + 1, entries, depth)
                    ELSE Let([formatted_r \in {format_value(ctx, warnings, value, field.format,
                                           field.params, field.path)} |->
                             IF ~formatted_r.r.ok THEN formatted_r
                             ELSE LET formatted == formatted_r.r.val  w == formatted_r.w IN
                              render_fields_loop(ctx, w, fields, i + 1,
                                  Append(entries, Item(field.label, formatted)), depth)])])

\* render_fields, entered with `depth` frames of it already on the stack: a
\* call the stack cannot hold overflows it
render_fields(ctx, warnings, fields, depth) ==
    IF depth >= StackDepth THEN [r |-> Err(StackOverflowErr), w |-> warnings]
    ELSE render_fields_loop(ctx, warnings, fields, 1, <<>>, depth + 1)

(***************************************************************************)
(* engine.rs: the format lookup, the intent interpolator, format_calldata  *)
(***************************************************************************)
RECURSIVE find_format_loop(_, _, _, _)
\* the loop of find_format over the entries of display.formats
find_format_loop(formats, i, function_name, selector) ==
    IF i > Len(formats)
    THEN Err(RenderError(<<"n", "o", " ", "d", "i", "s", "p", "l", "a", "y", " ", "f", "o", "r", "m", "a", "t", " ", "f", "o", "u", "n", "d", " ", "f", "o", "r", " ", "f", "u", "n", "c", "t", "i", "o", "n", " ", "'">> \o function_name
                         \o <<"'", " ", "(", "s", "e", "l", "e", "c", "t", "o", "r", " ", "0", "x">> \o hex_encode(selector) \o <<")">>))
    ELSE LET key == formats[i].key IN
         IF key = function_name THEN Ok(formats[i].value)
         ELSE IF Find(key, <<"(">>) # 0
                 /\ hex_encode(selector_from_signature(key)) = hex_encode(selector)
         THEN Ok(formats[i].value)
         ELSE find_format_loop(formats, i + 1, function_name, selector)

find_format(descriptor, function_name, selector) ==
    find_format_loop(descriptor.display.formats, 1, function_name, selector)

\* the number of replacements after which the loop of interpolate_intent is
\* taken to run without end
InterpolateFuel == 6

RECURSIVE interpolate_loop(_, _, _)
\* the `while let` of interpolate_intent, `n` replacements made so far: each
\* round searches `result` from its start
interpolate_loop(result, decoded, n) ==
    LET start == Find(result, <<"$", "{">>) IN
    IF start = 0 THEN Ok(result)
    ELSE LET end == FindFrom(result, <<"}">>, start) IN
         IF end = 0 THEN Ok(result)
         ELSE Let([v \in {resolve_path(decoded, SubSeq(result, start + 2, end - 1))} |->
              Let([replacement \in {IF v.some THEN format_raw(v.val) ELSE <<"<", "?", ">">>} |->
              Let([replaced \in {SubSeq(result, 1, start - 1) \o replacement \o Drop(result, end + 1)} |->
                  IF replaced = result \/ n >= InterpolateFuel THEN Err(HangErr)
                  ELSE interpolate_loop(replaced, decoded, n + 1)])])])

\* interpolate_intent: Ok(the string), or the loop does not end
interpolate_intent(template, decoded) == interpolate_loop(template, decoded, 0)

DisplayModel(intent, interpolated_intent, entries, warnings) ==
    [intent |-> intent, interpolated_intent |-> interpolated_intent, entries |-> entries,
     warnings |-> warnings]

\* engine::format_calldata
engine_format_calldata(descriptor, chain_id, decoded, token_source) ==
    Let([address_book \in {from_descriptor(descriptor.context.deployments, descriptor.metadata)} |->
    Let([format_r \in {find_format(descriptor, decoded.function_name, decoded.selector)} |->
        IF ~format_r.ok THEN format_r ELSE LET format == format_r.val IN
    Let([ctx \in {[descriptor |-> descriptor, decoded |-> decoded, chain_id |-> chain_id,
         token_source |-> token_source, address_book |-> address_book]} |->
    Let([entries \in {render_fields(ctx, <<>>, format.fields, 0)} |->
        IF ~entries.r.ok THEN entries.r
        ELSE Let([interpolated_r \in {IF format.interpolated_intent.some
                 THEN interpolate_intent(format.interpolated_intent.val, decoded)
                 ELSE Ok(<<>>)} |->
                 IF ~interpolated_r.ok THEN interpolated_r ELSE LET interpolated == interpolated_r.val IN
                 Ok(DisplayModel(
                      IF format.intent.some THEN format.intent.val
                      ELSE decoded.function_name,
                      IF format.interpolated_intent.some THEN Some(interpolated) ELSE None,
                      entries.r.val, entries.w))])])])])])

(***************************************************************************)
(* lib.rs: the calldata entry point                                        *)
(***************************************************************************)
RECURSIVE find_matching_loop_reporting(_, _, _)
\* find_matching_loop as it would be if a key that does not parse ended the
\* search with the parser's error instead of being skipped
find_matching_loop_reporting(formats, i, actual_selector) ==
    IF i > Len(formats)
    THEN Err(RenderError(<<"n", "o", " ", "m", "a", "t", "c", "h", "i", "n", "g", " ", "f", "o", "r", "m", "a", "t", " ", "k", "e", "y", " ", "f", "o", "r", " ", "s", "e", "l", "e", "c", "t", "o", "r", " ", "0", "x">>
                         \o hex_encode(SubSeq(actual_selector, 1, 4))))
    ELSE LET key == formats[i].key IN
         IF Find(key, <<"(">>) # 0 THEN
             LET sig == parse_signature(key) IN
             IF ~sig.ok THEN sig
             ELSE IF sig.val.selector = SubSeq(actual_selector, 1, 4)
             THEN Ok([sig |-> sig.val, key |-> key])
             ELSE find_matching_loop_reporting(formats, i + 1, actual_selector)
         ELSE find_matching_loop_reporting(formats, i + 1, actual_selector)

RECURSIVE find_matching_loop(_, _, _)
\* the loop of find_matching_signature over the keys of display.formats
find_matching_loop(formats, i, actual_selector) ==
    IF i > Len(formats)
    THEN Err(RenderError(<<"n", "o", " ", "m", "a", "t", "c", "h", "i", "n", "g", " ", "f", "o", "r", "m", "a", "t", " ", "k", "e", "y", " ", "f", "o", "r", " ", "s", "e", "l", "e", "c", "t", "o", "r", " ", "0", "x">>
                         \o hex_encode(SubSeq(actual_selector, 1, 4))))
    ELSE LET key == formats[i].key IN
         IF Find(key, <<"(">>) # 0 THEN
             Let([sig \in {parse_signature(key)} |->
                 IF sig.ok /\ sig.val.selector = SubSeq(actual_selector, 1, 4)
                 THEN Ok([sig |-> sig.val, key |-> key])
                 ELSE find_matching_loop(formats, i + 1, actual_selector)])
         ELSE find_matching_loop(formats, i + 1, actual_selector)

find_matching_signature(descriptor, actual_selector) ==
    find_matching_loop(descriptor.display.formats, 1, actual_selector)

\* lib::format_calldata
format_calldata(descriptor, chain_id, calldata, token_source) ==
    IF Len(calldata) < 4 THEN Err(CalldataTooShort(USize(4), USize(Len(calldata))))
    ELSE Let([found_r \in {find_matching_signature(descriptor, SubSeq(calldata, 1, 4))} |->
             IF ~found_r.ok THEN found_r ELSE LET found == found_r.val IN
         Let([decoded_r \in {decode_calldata(found.sig, calldata)} |->
             IF ~decoded_r.ok THEN decoded_r ELSE LET decoded == decoded_r.val IN
             engine_format_calldata(descriptor, chain_id, decoded, token_source)])])

(***************************************************************************)
(* eip712.rs: the typed-data pipeline                                      *)
(***************************************************************************)
\* serde_json::Value::get by key and by index
JsonGetKey(value, key) ==
    IF value.j = "Object" /\ \E i \in 1..Len(value.keys) : value.keys[i] = key
    THEN Some(value.vals[CHOOSE i \in 1..Len(value.keys) : value.keys[i] = key])
    ELSE None

JsonGetIndex(value, idx) ==
    IF value.j = "Array" THEN GetAt(value.items, idx) ELSE None

RECURSIVE typed_path_loop(_, _)
\* the loop of resolve_typed_path over the segments: Ok(an Option), or the
\* panic of the slice `segment[bracket + 1..segment.len() - 1]` when the
\* bracket is the last character of the segment
typed_path_loop(current, segments) ==
    IF segments = <<>> THEN Ok(Some(current))
    ELSE LET segment == segments[1]
             bracket == Find(segment, <<"[">>)
         IN  IF bracket # 0 THEN
                 IF bracket = Len(segment) THEN Err(PanicErr)
                 ELSE Let([keyed \in {JsonGetKey(current, SubSeq(segment, 1, bracket - 1))} |->
                      Let([idx \in {parse_usize(SubSeq(segment, bracket + 1, Len(segment) - 1))} |->
                          IF ~keyed.some THEN Ok(None)
                          ELSE IF ~idx.ok THEN Ok(None)
                          ELSE Let([at \in {JsonGetIndex(keyed.val, idx.val)} |->
                                   IF ~at.some THEN Ok(None)
                                   ELSE typed_path_loop(at.val, Tail(segments))])])])
             ELSE Let([next \in {JsonGetKey(current, segment)} |->
                      IF ~next.some THEN Ok(None)
                      ELSE typed_path_loop(next.val, Tail(segments))])

resolve_typed_path(message, path0) ==
    typed_path_loop(message, Split(StripPrefixOr(path0, <<"@", ".">>), "."))

check_typed_visibility(rule, value) ==
    CASE rule.r = "Always" -> TRUE
      [] rule.r = "Bool" -> rule.b
      [] rule.r = "Named" -> rule.s # <<"n", "e", "v", "e", "r">>
      [] rule.r = "Condition" -> IF value.some THEN evaluate(rule, value.val) ELSE TRUE

RECURSIVE JsonEscape(_)
\* the escapes serde_json writes in a string: the quote and the backslash
\* (the strings of the model hold no control characters)
JsonEscape(str) ==
    IF str = <<>> THEN <<>>
    ELSE (IF Head(str) \in {"\"", "\\"} THEN <<"\\", Head(str)>> ELSE <<Head(str)>>)
         \o JsonEscape(Tail(str))

RECURSIVE JsonToString(_)
\* serde_json::Value's Display: the compact JSON text
JsonToString(val) ==
    CASE val.j = "String" -> <<"\"">> \o JsonEscape(val.s) \o <<"\"">>
      [] val.j = "Number" -> val.n
      [] val.j = "Bool" -> IF val.b THEN <<"t", "r", "u", "e">> ELSE <<"f", "a", "l", "s", "e">>
      [] val.j = "Null" -> <<"n", "u", "l", "l">>
      [] val.j = "Array" ->
            <<"[">> \o Join([i \in 1..Len(val.items) |-> JsonToString(val.items[i])], <<",">>)
                \o <<"]">>
      [] val.j = "Object" ->
            <<"{">> \o Join([i \in 1..Len(val.keys) |->
                                <<"\"">> \o JsonEscape(val.keys[i]) \o <<"\"", ":">>
                                    \o JsonToString(val.vals[i])], <<",">>)
                \o <<"}">>

json_value_to_string(val) ==
    CASE val.j = "String" -> val.s
      [] val.j = "Number" -> val.n
      [] val.j = "Bool" -> IF val.b THEN <<"t", "r", "u", "e">> ELSE <<"f", "a", "l", "s", "e">>
      [] val.j = "Null" -> <<"n", "u", "l", "l">>
      [] OTHER -> JsonToString(val)

\* the magnitude of i64::MIN
I64MinMagDec ==
    <<"9", "2", "2", "3", "3", "7", "2", "0", "3", "6", "8", "5", "4", "7", "7", "5", "8", "0", "8">>

\* str::parse::<i64>(): an optional sign, then one or more digits, within
\* range; Some([neg, mag]) with the numeral of the magnitude, else None
parse_i64(str) ==
    LET signed == str # <<>> /\ Head(str) \in {"+", "-"}
        neg == str # <<>> /\ Head(str) = "-"
        body == IF signed THEN Tail(str) ELSE str
        mag == StripZeros(body)
    IN  IF ~IsNumeral(body) THEN None
        ELSE IF ~DecLe(mag, IF neg THEN I64MinMagDec ELSE I64MaxDec) THEN None
        ELSE Some([neg |-> neg /\ mag # <<"0">>, mag |-> mag])

\* str::parse::<u64>(): an optional '+', then one or more digits, within range
parse_u64(str) ==
    LET body == IF str # <<>> /\ Head(str) = "+" THEN Tail(str) ELSE str
        mag == StripZeros(body)
    IN  IF ~IsNumeral(body) THEN None
        ELSE IF ~DecLe(mag, U64MaxDec) THEN None
        ELSE Some(mag)

\* str::parse::<BigUint>(): an optional '+', then digits, among which
\* underscores may stand after the first
parse_biguint(str) ==
    LET body == IF str # <<>> /\ Head(str) = "+" THEN Tail(str) ELSE str
        digits == SelectSeq(body, LAMBDA c : c # "_")
    IN  IF body = <<>> \/ Head(body) = "_" \/ ~IsNumeral(digits) THEN None
        ELSE Some(StripZeros(digits))

\* Number::as_i64 and Number::as_u64 (the numbers of the model are within u64)
as_i64(n) == IF DecLe(n, I64MaxDec) THEN Some([neg |-> FALSE, mag |-> n]) ELSE None

as_u64(val) == IF val.j = "Number" THEN Some(val.n) ELSE None

\* resolve_typed_chain_id: Ok(the chain id), or the panic of the path resolver
resolve_typed_chain_id(params, default_chain, message) ==
    IF params.some /\ params.val.chain_id.some THEN Ok(params.val.chain_id.val)
    ELSE IF params.some /\ params.val.chain_id_path.some THEN
        Let([val_r \in {resolve_typed_path(message, params.val.chain_id_path.val)} |->
            IF ~val_r.ok THEN val_r ELSE LET val == val_r.val IN
            IF val.some /\ as_u64(val.val).some THEN Ok(as_u64(val.val).val)
            ELSE Ok(default_chain)])
    ELSE Ok(default_chain)

\* the token metadata the TokenAmount arm of format_typed_value finds:
\* Ok(an Option<TokenMeta>), or the panic of the path resolver
typed_token_meta(params, lookup_chain, message, token_source) ==
    IF params.some /\ params.val.token_path.some THEN
        Let([token_addr_r \in {resolve_typed_path(message, params.val.token_path.val)} |->
            IF ~token_addr_r.ok THEN token_addr_r ELSE LET token_addr == token_addr_r.val IN
            IF token_addr.some /\ token_addr.val.j = "String"
            THEN Ok(lookup(token_source, TokenLookupKey(lookup_chain, token_addr.val.s)))
            ELSE Ok(None)])
    ELSE Ok(None)

\* the timestamp of the Date arm and the chain id of the ChainId arm
typed_timestamp(val) ==
    Let([ts \in {CASE val.j = "Number" -> as_i64(val.n)
          [] val.j = "String" -> parse_i64(val.s)
          [] OTHER -> None} |-> IF ts.some THEN ts.val ELSE [neg |-> FALSE, mag |-> <<"0">>]])

typed_chain_id(val) ==
    Let([cid \in {CASE val.j = "Number" -> Some(val.n)
          [] val.j = "String" -> parse_u64(val.s)
          [] OTHER -> None} |-> IF cid.some THEN cid.val ELSE <<"0">>])

\* format_typed_value: [r |-> the Result, w |-> the warnings afterwards]
format_typed_value(descriptor, warnings, value, format, params, chain_id, message, token_source, address_book) ==
    IF ~value.some THEN [r |-> Ok(<<"<", "u", "n", "r", "e", "s", "o", "l", "v", "e", "d", ">">>), w |-> warnings]
    ELSE IF params.some /\ params.val.encryption.some
            /\ params.val.encryption.val.fallback_label.some THEN
        [r |-> Ok(params.val.encryption.val.fallback_label.val), w |-> warnings]
    ELSE Let([val \in {value.val} |->
         Let([raw \in {json_value_to_string(val)} |->
         Let([map_def \in {IF params.some /\ params.val.map_reference.some
             THEN MapGet(descriptor.metadata.maps, params.val.map_reference.val)
             ELSE None} |->
         Let([mapped \in {IF map_def.some THEN MapGet(map_def.val, raw) ELSE None} |->
             IF mapped.some THEN [r |-> Ok(mapped.val), w |-> warnings]
             ELSE IF ~format.some THEN [r |-> Ok(raw), w |-> warnings]
             ELSE CASE format.val = "Address" -> [r |-> Ok(raw), w |-> warnings]
                    [] format.val = "AddressName" ->
                          Let([label \in {resolve(address_book, raw)} |->
                              [r |-> Ok(IF label.some THEN label.val ELSE raw), w |-> warnings]])
                    [] format.val = "TokenAmount" ->
                          Let([parsed \in {parse_biguint(raw)} |->
                          Let([amount \in {IF parsed.some THEN parsed.val ELSE <<"0">>} |->
                          Let([lookup_chain_r \in {resolve_typed_chain_id(params, chain_id, message)} |->
                              IF ~lookup_chain_r.ok THEN [r |-> lookup_chain_r, w |-> warnings]
                              ELSE LET lookup_chain == lookup_chain_r.val IN
                          Let([token_meta_r \in {typed_token_meta(params, lookup_chain, message, token_source)} |->
                              IF ~token_meta_r.ok THEN [r |-> token_meta_r, w |-> warnings]
                              ELSE LET token_meta == token_meta_r.val IN
                               IF token_meta.some THEN
                                   [r |-> Ok(format_with_decimals(amount, token_meta.val.decimals)
                                             \o <<" ">> \o token_meta.val.symbol),
                                    w |-> warnings]
                               ELSE [r |-> Ok(amount), w |-> warnings]])])])])
                    [] format.val = "Date" ->
                          Let([ts \in {typed_timestamp(val)} |->
                              [r |-> format_timestamp(ts.neg, ts.mag), w |-> warnings]])
                    [] format.val = "Enum" ->
                          Let([enum_def \in {IF params.some /\ params.val.enum_path.some
                              THEN MapGet(descriptor.metadata.enums, params.val.enum_path.val)
                              ELSE None} |->
                          Let([label \in {IF enum_def.some THEN MapGet(enum_def.val, raw) ELSE None} |->
                              [r |-> Ok(IF label.some THEN label.val ELSE raw), w |-> warnings]])])
                    [] format.val = "Number" -> [r |-> Ok(raw), w |-> warnings]
                    [] format.val = "TokenTicker" ->
                          Let([lookup_chain_r \in {resolve_typed_chain_id(params, chain_id, message)} |->
                              IF ~lookup_chain_r.ok THEN [r |-> lookup_chain_r, w |-> warnings]
                              ELSE LET lookup_chain == lookup_chain_r.val IN
                          Let([meta \in {lookup(token_source, TokenLookupKey(lookup_chain, raw))} |->
                              IF meta.some THEN [r |-> Ok(meta.val.symbol), w |-> warnings]
                              ELSE [r |-> Ok(raw),
                                    w |-> Append(warnings,
                                                 <<"t", "o", "k", "e", "n", " ", "t", "i", "c", "k", "e", "r", " ", "n", "o", "t", " ", "f", "o", "u", "n", "d">>)]])])
                    [] format.val = "ChainId" ->
                          [r |-> Ok(chain_name(typed_chain_id(val))), w |-> warnings]
                    [] OTHER ->
                          [r |-> Ok(raw),
                           w |-> Append(warnings, <<"f", "o", "r", "m", "a", "t", " ">> \o FormatDebug(format.val)
                                        \o <<" ", "n", "o", "t", " ", "y", "e", "t", " ", "i", "m", "p", "l", "e", "m", "e", "n", "t", "e", "d", " ", "f", "o", "r", " ", "E", "I", "P", "-", "7", "1", "2">>)]])])])])

RECURSIVE render_typed_fields(_, _, _, _)
RECURSIVE render_typed_fields_loop(_, _, _, _, _, _)

\* render_typed_field_group. tctx holds what the walker passes down
\* unchanged: descriptor, message, chain_id, token_source, address_book.
render_typed_field_group(tctx, warnings, group, depth) ==
    Let([sub_r \in {render_typed_fields(tctx, warnings, group.fields, depth)} |->
        IF ~sub_r.r.ok THEN sub_r
        ELSE LET sub == sub_r.r.val  w == sub_r.w IN
    Let([items \in {FlattenEntries(sub)} |->
        IF items = <<>> THEN [r |-> Ok(None), w |-> w]
        ELSE [r |-> Ok(Some(GroupEntry(group.label, group.iteration, items))), w |-> w]])])

\* the loop of render_typed_fields over the fields
render_typed_fields_loop(tctx, warnings, fields, i, entries, depth) ==
    IF i > Len(fields) THEN [r |-> Ok(entries), w |-> warnings]
    ELSE LET field == fields[i] IN
         CASE field.f = "Reference" ->
                Let([key \in {StripPrefixOr(field.reference, <<"#", "/", "d", "e", "f", "i", "n", "i", "t", "i", "o", "n", "s", "/">>)} |->
                Let([resolved \in {MapGet(tctx.descriptor.display.definitions, key)} |->
                    IF resolved.some THEN
                        Let([sub_r \in {render_typed_fields(tctx, warnings, <<resolved.val>>, depth)} |->
                            IF ~sub_r.r.ok THEN sub_r
                            ELSE LET sub == sub_r.r.val  w == sub_r.w IN
                             render_typed_fields_loop(tctx, w, fields, i + 1,
                                                      entries \o sub, depth)])
                    ELSE render_typed_fields_loop(tctx,
                            Append(warnings, <<"u", "n", "r", "e", "s", "o", "l", "v", "e", "d", " ", "r", "e", "f", "e", "r", "e", "n", "c", "e", ":", " ">>
                                             \o field.reference),
                            fields, i + 1, entries, depth)])])
           [] field.f = "Group" ->
                Let([entry_r \in {render_typed_field_group(tctx, warnings, field, depth)} |->
                    IF ~entry_r.r.ok THEN entry_r
                    ELSE LET entry == entry_r.r.val  w == entry_r.w IN
                     render_typed_fields_loop(tctx, w, fields, i + 1,
                         IF entry.some THEN Append(entries, entry.val) ELSE entries, depth)])
           [] field.f = "Simple" ->
                Let([value_r \in {resolve_typed_path(tctx.message, field.path)} |->
                    IF ~value_r.ok THEN [r |-> value_r, w |-> warnings]
                    ELSE LET value == value_r.val IN
                    IF ~check_typed_visibility(field.visible, value)
                    THEN render_typed_fields_loop(tctx, warnings, fields, i + 1, entries, depth)
                    ELSE Let([formatted_r \in {format_typed_value(tctx.descriptor, warnings, value,
                                  field.format, field.params, tctx.chain_id,
                                  tctx.message, tctx.token_source, tctx.address_book)} |->
                             IF ~formatted_r.r.ok THEN formatted_r
                             ELSE LET formatted == formatted_r.r.val  w == formatted_r.w IN
                              render_typed_fields_loop(tctx, w, fields, i + 1,
                                  Append(entries, Item(field.label, formatted)), depth)])])

\* render_typed_fields, entered with `depth` frames of it already on the stack
render_typed_fields(tctx, warnings, fields, depth) ==
    IF depth >= StackDepth THEN [r |-> Err(StackOverflowErr), w |-> warnings]
    ELSE render_typed_fields_loop(tctx, warnings, fields, 1, <<>>, depth + 1)

RECURSIVE interpolate_typed_loop(_, _, _)
\* the `while let` of interpolate_typed_intent, `n` replacements made so far
interpolate_typed_loop(result, message, n) ==
    LET start == Find(result, <<"$", "{">>) IN
    IF start = 0 THEN Ok(result)
    ELSE LET end == FindFrom(result, <<"}">>, start) IN
         IF end = 0 THEN Ok(result)
         ELSE Let([v_r \in {resolve_typed_path(message, SubSeq(result, start + 2, end - 1))} |->
                  IF ~v_r.ok THEN v_r ELSE LET v == v_r.val IN
              Let([replacement \in {IF v.some THEN json_value_to_string(v.val) ELSE <<"<", "?", ">">>} |->
              Let([replaced \in {SubSeq(result, 1, start - 1) \o replacement \o Drop(result, end + 1)} |->
                  IF replaced = result \/ n >= InterpolateFuel THEN Err(HangErr)
                  ELSE interpolate_typed_loop(replaced, message, n + 1)])])])

\* interpolate_typed_intent: Ok(the string), a panic, or a loop without end
interpolate_typed_intent(template, message) == interpolate_typed_loop(template, message, 0)

\* eip712::format_typed_data; data is the TypedData [primary_type, domain, message]
eip712_format_typed_data(descriptor, data, token_source) ==
    Let([address_book \in {from_descriptor(descriptor.context.deployments, descriptor.metadata)} |->
    Let([chain_id \in {IF data.domain.chain_id.some THEN data.domain.chain_id.val ELSE <<"1">>} |->
    Let([found \in {EntriesGet(descriptor.display.formats, data.primary_type)} |->
        IF ~found.some
        THEN Err(RenderError(<<"n", "o", " ", "d", "i", "s", "p", "l", "a", "y", " ", "f", "o", "r", "m", "a", "t", " ", "f", "o", "u", "n", "d", " ", "f", "o", "r", " ", "p", "r", "i", "m", "a", "r", "y", " ", "t", "y", "p", "e", " ", "'">>
                             \o data.primary_type \o <<"'">>))
        ELSE Let([format \in {found.val} |->
             Let([tctx \in {[descriptor |-> descriptor, message |-> data.message,
                  chain_id |-> chain_id, token_source |-> token_source,
                  address_book |-> address_book]} |->
             Let([entries \in {render_typed_fields(tctx, <<>>, format.fields, 0)} |->
                 IF ~entries.r.ok THEN entries.r
                 ELSE Let([interpolated_r \in {IF format.interpolated_intent.some
                          THEN interpolate_typed_intent(format.interpolated_intent.val,
                                                        data.message)
                          ELSE Ok(<<>>)} |->
                          IF ~interpolated_r.ok THEN interpolated_r ELSE LET interpolated == interpolated_r.val IN
                          Ok(DisplayModel(
                               IF format.intent.some THEN format.intent.val
                               ELSE data.primary_type,
                               IF format.interpolated_intent.some
                               THEN Some(interpolated) ELSE None,
                               entries.r.val, entries.w))])])])])])])])

\* lib::format_typed_data
format_typed_data(descriptor, data, token_source) ==
    eip712_format_typed_data(descriptor, data, token_source)

(***************************************************************************)
(* The calls the model makes: signatures, calldata, descriptors, typed     *)
(* data                                                                    *)
(***************************************************************************)
\* the largest number of 32-byte words after the selector of a decoded buffer
MaxWords == 3

\* the largest number of fields in the field list of a format
MaxFields == 2

\* the 32-byte word whose low bytes are b
Word(b) == [i \in 1..(32 - Len(b)) |-> 0] \o b

WordZero == Word(<<>>)

WordOffset == Word(<<32>>)

\* 2^64 - 1 and 2^64 - 32, the words whose sum with a length leaves usize
WordMax == Word(<<255, 255, 255, 255, 255, 255, 255, 255>>)

WordWrap == Word(<<255, 255, 255, 255, 255, 255, 255, 224>>)

\* the word of thirty-two 0xff bytes
WordOnes == [i \in 1..32 |-> 255]

Words == {WordZero, WordOffset, WordMax, WordWrap, WordOnes}

\* the sequences of at most n elements of S
SeqsUpTo(S, n) == UNION {[1..k -> S] : k \in 0..n}

\* the signatures decode_calldata is given
Signatures ==
    {<<"t", "r", "a", "n", "s", "f", "e", "r", "(", "a", "d", "d", "r", "e", "s", "s", ",", "u", "i", "n", "t", "2", "5", "6", ")">>,
     <<"f", "(", "(", "u", "i", "n", "t", "2", "5", "6", ",", "u", "i", "n", "t", "2", "5", "6", ")", ",", "u", "i", "n", "t", "2", "5", "6", ")">>,
     <<"f", "(", "u", "i", "n", "t", "2", "5", "6", "[", "2", "]", ",", "u", "i", "n", "t", "2", "5", "6", ")">>,
     <<"f", "(", "b", "y", "t", "e", "s", "3", "3", ")">>,
     <<"f", "(", "s", "t", "r", "i", "n", "g", ")">>,
     <<"f", "(", "u", "i", "n", "t", "2", "5", "6", "[", "]", ")">>,
     <<"f", "(", "s", "t", "r", "i", "n", "g", "[", "0", "]", ")">>,
     <<"f", "(", "s", "t", "r", "i", "n", "g", "[", "]", ")">>,
     <<"f", "(", "b", "y", "t", "e", "s", "[", "]", ")">>,
     <<"f", "(", "(", "u", "i", "n", "t", "2", "5", "6", ",", "s", "t", "r", "i", "n", "g", ")", ")">>,
     <<"f", "(", "(", ")", ")">>,
     <<"f", "(", ")">>}

\* the strings parse_signature is given: signatures with whitespace around
\* the whole, around the types and before the parenthesis, shorthand widths,
\* nested tuples and array suffixes, canonical forms, and strings that do not
\* parse
SignatureTexts ==
    {<<" ", "t", "r", "a", "n", "s", "f", "e", "r", "(", "a", "d", "d", "r", "e", "s", "s", ",", "u", "i", "n", "t", "2", "5", "6", ")", " ">>,
     <<"t", "r", "a", "n", "s", "f", "e", "r", "(", " ", "a", "d", "d", "r", "e", "s", "s", " ", ",", " ", "u", "i", "n", "t", "2", "5", "6", " ", ")">>,
     <<"t", "r", "a", "n", "s", "f", "e", "r", " ", "(", "a", "d", "d", "r", "e", "s", "s", ",", "u", "i", "n", "t", "2", "5", "6", ")">>,
     <<"t", "r", "a", "n", "s", "f", "e", "r", "(", "a", "d", "d", "r", "e", "s", "s", ",", "u", "i", "n", "t", "2", "5", "6", ")">>,
     <<"f", "(", "u", "i", "n", "t", ",", "i", "n", "t", ")">>,
     <<"f", "(", "u", "i", "n", "t", "2", "5", "6", ",", "i", "n", "t", "2", "5", "6", ")">>,
     <<"f", "(", " ", "(", "u", "i", "n", "t", " ", ",", " ", "(", "b", "o", "o", "l", ",", "b", "y", "t", "e", "s", "4", ")", "[", "2", "]", ")", "[", "]", " ", ",", "s", "t", "r", "i", "n", "g", "[", "3", "]", "[", "]", " ", ")">>,
     <<"f", "(", "(", "u", "i", "n", "t", ",", "(", "b", "o", "o", "l", ",", "b", "y", "t", "e", "s", "4", ")", "[", "2", "]", ")", "[", "]", ",", "s", "t", "r", "i", "n", "g", "[", "3", "]", "[", "]", ")">>,
     <<"f", "(", "(", "u", "i", "n", "t", "2", "5", "6", ",", "(", "b", "o", "o", "l", ",", "b", "y", "t", "e", "s", "4", ")", "[", "2", "]", ")", "[", "]", ",", "s", "t", "r", "i", "n", "g", "[", "3", "]", "[", "]", ")">>,
     <<"f", "(", "u", "i", "n", "t", "0", "0", "8", "[", "+", "2", "]", ",", ")">>,
     <<"f", "(", "u", "i", "n", "t", "8", "[", "2", "]", ")">>,
     <<"f", "(", " ", ")">>,
     <<"f", "(", ")">>,
     <<"f", "(", "u", "i", "n", "t", " ", "2", "5", "6", ")">>,
     <<"f", "(", "u", "i", "n", "t", "2", "5", "6">>,
     <<"(", "u", "i", "n", "t", "2", "5", "6", ")">>,
     <<"f", "(", "u", "i", "n", "t", "2", "5", "6", "[", " ", "2", "]", ")">>,
     <<"f", "(", ",", "u", "i", "n", "t", "2", "5", "6", ")">>}
        \cup Signatures

\* a selector no signature of the model has
OtherSelector == <<222, 173, 190, 239>>

\* the buffers given with a signature of selector s: the selector and up to
\* MaxWords words, another selector, and a buffer shorter than a selector
Buffers(s) ==
    {s \o Concat(ws) : ws \in SeqsUpTo(Words, MaxWords)}
        \cup {OtherSelector \o WordZero, SubSeq(s, 1, 3)}

\* the address 0x5aAeb6053F3E94C9b9A09f33669435E7Ef1BeAed
AddrA == <<90, 174, 182, 5, 63, 62, 148, 201, 185, 160, 159, 51, 102, 148, 53, 231, 239, 27, 234, 237>>

AddrAHex == <<"0", "x", "5", "a", "a", "e", "b", "6", "0", "5", "3", "f", "3", "e", "9", "4", "c", "9", "b", "9", "a", "0", "9", "f", "3", "3", "6", "6", "9", "4", "3", "5", "e", "7", "e", "f", "1", "b", "e", "a", "e", "d">>

\* the fields the descriptors of the model are built from
ToField == Simple(<<"@", ".", "0">>, <<"T", "o">>, Some("AddressName"), None, Always)

AmountField ==
    Simple(<<"1">>, <<"A", "m", "o", "u", "n", "t">>, Some("TokenAmount"),
           Some([NoParams EXCEPT !.token_path = Some(<<"0">>)]), Always)

DateField == Simple(<<"@", ".", "0">>, <<"N", "e", "w", " ", "U", "n", "l", "o", "c", "k", " ", "T", "i", "m", "e">>, Some("Date"), None, Always)

ChainField == Simple(<<"0">>, <<"C", "h", "a", "i", "n">>, Some("ChainId"), None, Always)

MissingField == Simple(<<"5">>, <<"M", "i", "s", "s", "i", "n", "g">>, None, None, Always)

HiddenField == Simple(<<"0">>, <<"H", "i", "d", "d", "e", "n">>, None, None, Named(<<"n", "e", "v", "e", "r">>))

NoneRef == Reference(<<"#", "/", "d", "e", "f", "i", "n", "i", "t", "i", "o", "n", "s", "/", "n", "o", "n", "e">>)

DetailsGroup == Group(<<"D", "e", "t", "a", "i", "l", "s">>, <<ToField, MissingField, NoneRef>>)

NestedGroup == Group(<<"O", "u", "t", "e", "r">>, <<Group(<<"W", "h", "e", "n">>, <<DateField>>)>>)

WhenRef == Reference(<<"#", "/", "d", "e", "f", "i", "n", "i", "t", "i", "o", "n", "s", "/", "w", "h", "e", "n">>)

LoopRef == Reference(<<"#", "/", "d", "e", "f", "i", "n", "i", "t", "i", "o", "n", "s", "/", "l", "o", "o", "p">>)

FieldPool == {AmountField, HiddenField, DetailsGroup, NestedGroup, WhenRef, LoopRef}

\* the JSON values the conditions of the model name: AddrA as either
\* pipeline reads it, and an address no argument holds
JsonAddrA == JString(AddrAHex)

JsonOther == JString(<<"0", "x", "0", "0">>)

\* the visibility rules of the model: each variant of VisibleRule, the
\* conditions with either list, both lists and none
VisibleRules ==
    {Always, VBool(TRUE), VBool(FALSE),
     Named(<<"a", "l", "w", "a", "y", "s">>), Named(<<"n", "e", "v", "e", "r">>),
     Condition(None, None),
     Condition(Some(<<JsonAddrA>>), None), Condition(Some(<<JsonOther>>), None),
     Condition(None, Some(<<JsonOther, JsonAddrA>>)), Condition(None, Some(<<JsonOther>>)),
     Condition(Some(<<JsonAddrA>>), Some(<<JsonAddrA>>)),
     Condition(Some(<<JsonOther>>), Some(<<JsonAddrA>>))}

\* a field under each rule, of a path that resolves and of one that does
\* not, shown raw and as a date
VisibilityFields ==
    {Simple(path, <<"S", "e", "e", "n">>, format, None, rule) :
        path \in {<<"0">>, <<"5">>}, format \in {None, Some("Date")}, rule \in VisibleRules}

\* display.definitions: "when" is the date field, "loop" refers to itself
Definitions == (<<"w", "h", "e", "n">> :> DateField) @@ (<<"l", "o", "o", "p">> :> LoopRef)

\* the format keys
TransferKey == <<"t", "r", "a", "n", "s", "f", "e", "r", "(", "a", "d", "d", "r", "e", "s", "s", ",", "u", "i", "n", "t", "2", "5", "6", ")">>

SpacedKey == <<"t", "r", "a", "n", "s", "f", "e", "r", "(", "a", "d", "d", "r", "e", "s", "s", ",", " ", "u", "i", "n", "t", "2", "5", "6", ")">>

ShorthandKey == <<"t", "r", "a", "n", "s", "f", "e", "r", "(", "a", "d", "d", "r", "e", "s", "s", ",", "u", "i", "n", "t", ")">>

UnclosedKey == <<"t", "r", "a", "n", "s", "f", "e", "r", "(", "a", "d", "d", "r", "e", "s", "s", ",", "u", "i", "n", "t", "2", "5", "6">>

UnlockKey == <<"i", "n", "c", "r", "e", "a", "s", "e", "U", "n", "l", "o", "c", "k", "T", "i", "m", "e", "(", "u", "i", "n", "t", "2", "5", "6", ")">>

NoteKey == <<"n", "o", "t", "e", "(", "s", "t", "r", "i", "n", "g", ")">>

NameKey == <<"t", "r", "a", "n", "s", "f", "e", "r">>

PermitKey == <<"P", "e", "r", "m", "i", "t">>

KeyPool ==
    {TransferKey, SpacedKey, ShorthandKey, UnclosedKey, UnlockKey, NoteKey, NameKey, PermitKey}

\* DisplayFormat
DisplayFormat(intent, interpolated_intent, fields) ==
    [intent |-> intent, interpolated_intent |-> interpolated_intent, fields |-> fields]

\* Descriptor: the deployment is AddrA, the contract has no name and the
\* address book, the enums and the maps are empty; formats is the sequence
\* of the entries of display.formats in iteration order
Descriptor(formats) ==
    [context |-> [deployments |-> <<AddrAHex>>],
     metadata |-> [contract_name |-> None, address_book |-> <<>>, enums |-> <<>>, maps |-> <<>>],
     display |-> [definitions |-> Definitions, formats |-> formats]]

FormatEntry(key, format) == [key |-> key, value |-> format]

\* the templates of interpolated intents
UnlockTemplate == <<"I", "n", "c", "r", "e", "a", "s", "e", " ", "u", "n", "l", "o", "c", "k", " ", "t", "i", "m", "e", " ", "t", "o", " ", "$", "{", "@", ".", "0", "}">>

Templates ==
    {UnlockTemplate, <<"s", "a", "y", " ", "$", "{", "0", "}">>, <<"$", "{", "0", "}", " ", "a", "n", "d", " ", "$", "{", "9", "}">>, <<"t", "o", " ", "$", "{", "0">>}

\* the format a second entry of display.formats holds
OtherFormat == DisplayFormat(Some(<<"O", "t", "h", "e", "r">>), None, <<MissingField>>)

\* groups: one whose only field is hidden, one that holds a group between
\* two fields, one that holds only groups without a visible field, and one
\* that holds a reference to a definition
QuietGroup == Group(<<"Q", "u", "i", "e", "t">>, <<HiddenField>>)

InnerGroup == Group(<<"I", "n", "n", "e", "r">>, <<HiddenField, AmountField>>)

WideGroup == Group(<<"W", "i", "d", "e">>, <<ToField, InnerGroup, MissingField>>)

HollowGroup == Group(<<"H", "o", "l", "l", "o", "w">>, <<QuietGroup, Group(<<"I", "n", "n", "e", "r">>, <<QuietGroup>>)>>)

RefGroup == Group(<<"D", "a", "t", "e", "s">>, <<WhenRef, HiddenField>>)

GroupLists ==
    {<<QuietGroup>>, <<WideGroup>>, <<HollowGroup>>, <<RefGroup>>, <<WideGroup, QuietGroup>>,
     <<HollowGroup, ToField>>}

\* metadata.maps: one map, "kinds", with a label for 1766151741 and for 137
KindsKey == <<"k", "i", "n", "d", "s">>

Maps ==
    KindsKey :> ((<<"1", "7", "6", "6", "1", "5", "1", "7", "4", "1">> :> <<"T", "o", "m", "o", "r", "r", "o", "w">>)
                 @@ (<<"1", "3", "7">> :> <<"K", "i", "n", "d", " ", "A">>))

\* a field under each setting of params.encryption and params.map_reference,
\* shown raw and as a date: no encryption, encryption without and with a
\* fallback label; no map, the map "kinds", and a map that is not defined
DispatchFields ==
    {Simple(<<"0">>, <<"K", "i", "n", "d">>, format,
            Some([NoParams EXCEPT !.encryption = encryption, !.map_reference = map_reference]),
            Always) :
        format \in {None, Some("Date")},
        encryption \in {None, Some([fallback_label |-> None]),
                        Some([fallback_label |-> Some(<<"S", "e", "c", "r", "e", "t">>)])},
        map_reference \in {None, Some(KindsKey), Some(<<"a", "b", "s", "e", "n", "t">>)}}

\* paths with an index: without the closing bracket, a bare bracket, an
\* index that is no number, an index without the closing bracket, an index
\* within the array and one past its end
IndexPaths ==
    {<<"i", "t", "e", "m", "s", "[">>, <<"[">>, <<"i", "t", "e", "m", "s", "[", "x", "]">>, <<"i", "t", "e", "m", "s", "[", "0">>, <<"i", "t", "e", "m", "s", "[", "0", "]">>, <<"i", "t", "e", "m", "s", "[", "5", "]">>}

IndexFields == {Simple(path, <<"I", "t", "e", "m">>, None, None, Always) : path \in IndexPaths}

\* a token amount under each setting of params.chain_id and
\* params.chain_id_path: no path, the path of the amount, the path of the
\* address, and a path that does not resolve
LookupFields ==
    {Simple(<<"1">>, <<"A", "m", "o", "u", "n", "t">>, Some("TokenAmount"),
            Some([NoParams EXCEPT !.token_path = Some(<<"0">>), !.chain_id = chain_id,
                                  !.chain_id_path = chain_id_path]),
            Always) :
        chain_id \in {None, Some(<<"1", "3", "7">>)},
        chain_id_path \in {None, Some(<<"1">>), Some(<<"0">>), Some(<<"5">>)}}

\* the descriptors with maps: one with each field of DispatchFields
MapDescriptors ==
    {[Descriptor(<<FormatEntry(key, DisplayFormat(None, None, <<field>>))>>)
        EXCEPT !.metadata.maps = Maps] :
        key \in {UnlockKey, PermitKey}, field \in DispatchFields}

\* the descriptors of the model: one format under each key of the pool, with
\* each field list; one with each template; two formats in either order;
\* one with each field of VisibilityFields; one with each list of groups;
\* one with the chain field; the descriptors with maps; and one with each
\* field of LookupFields and of IndexFields
Descriptors ==
    {Descriptor(<<FormatEntry(key, DisplayFormat(None, None, <<ToField>>))>>) : key \in KeyPool}
    \cup {Descriptor(<<FormatEntry(key, DisplayFormat(Some(<<"S", "e", "n", "d">>), None, fields))>>) :
            key \in {TransferKey, UnlockKey, PermitKey}, fields \in SeqsUpTo(FieldPool, MaxFields)}
    \cup {Descriptor(<<FormatEntry(key, DisplayFormat(None, Some(template), <<DateField>>))>>) :
            key \in {UnlockKey, NoteKey, PermitKey}, template \in Templates}
    \cup {Descriptor(<<FormatEntry(first, OtherFormat),
                       FormatEntry(second, DisplayFormat(None, None, <<ToField>>))>>) :
            first \in {UnclosedKey, NameKey, SpacedKey}, second \in {TransferKey, SpacedKey}}
    \cup {Descriptor(<<FormatEntry(second, DisplayFormat(None, None, <<ToField>>)),
                       FormatEntry(first, OtherFormat)>>) :
            first \in {UnclosedKey, NameKey, SpacedKey}, second \in {TransferKey, SpacedKey}}
    \cup {Descriptor(<<FormatEntry(key, DisplayFormat(None, None, <<field>>))>>) :
            key \in {TransferKey, UnlockKey, PermitKey}, field \in VisibilityFields}
    \cup {Descriptor(<<FormatEntry(key, DisplayFormat(None, None, fields))>>) :
            key \in {TransferKey, UnlockKey, PermitKey}, fields \in GroupLists}
    \cup {Descriptor(<<FormatEntry(key, DisplayFormat(None, None, <<field>>))>>) :
            key \in {UnlockKey, PermitKey}, field \in {ChainField}}
    \cup MapDescriptors
    \cup {Descriptor(<<FormatEntry(PermitKey, DisplayFormat(None, None, <<field>>))>>) :
            field \in IndexFields}
    \cup {Descriptor(<<FormatEntry(key, DisplayFormat(None, None, <<field>>))>>) :
            key \in {TransferKey, PermitKey}, field \in LookupFields}

\* a string argument: the offset word, the length word, the bytes padded to a word
StringArgument(bytes) ==
    WordOffset \o Word(<<Len(bytes)>>) \o bytes \o [i \in 1..(32 - Len(bytes)) |-> 0]

\* the calldata of the model: transfer(AddrA, 1500000), a transfer cut after
\* its first word, transfer(AddrA, 2^64), increaseUnlockTime(1766151741),
\* increaseUnlockTime(253402300800), increaseUnlockTime(2^63),
\* increaseUnlockTime(2^64), increaseUnlockTime(137), note("hi"), note("${9}"), note("${0}"),
\* a selector of no format, a buffer shorter than a selector
Calldatas ==
    {<<169, 5, 156, 187>> \o Word(AddrA) \o Word(<<22, 227, 96>>),
     <<169, 5, 156, 187>> \o Word(AddrA),
     <<169, 5, 156, 187>> \o Word(AddrA) \o Word(<<1, 0, 0, 0, 0, 0, 0, 0, 0>>),
     <<124, 97, 111, 230>> \o Word(<<105, 69, 86, 61>>),
     <<124, 97, 111, 230>> \o Word(<<58, 255, 244, 65, 128>>),
     <<124, 97, 111, 230>> \o Word(<<128, 0, 0, 0, 0, 0, 0, 0>>),
     <<124, 97, 111, 230>> \o Word(<<1, 0, 0, 0, 0, 0, 0, 0, 0>>),
     <<124, 97, 111, 230>> \o Word(<<137>>),
     <<27, 53, 44, 67>> \o StringArgument(<<104, 105>>),
     <<27, 53, 44, 67>> \o StringArgument(<<36, 123, 57, 125>>),
     <<27, 53, 44, 67>> \o StringArgument(<<36, 123, 48, 125>>),
     OtherSelector \o WordZero,
     <<169, 5, 156>>}

\* the token sources: an empty one, and one that knows a token at AddrA on
\* chain 1, another on chain 137 and another on chain 1500000
TokenSources ==
    {<<>>,
     (<<"e", "i", "p", "1", "5", "5", ":", "1", "/", "e", "r", "c", "2", "0", ":", "0", "x", "5", "a", "a", "e", "b", "6", "0", "5", "3", "f", "3", "e", "9", "4", "c", "9", "b", "9", "a", "0", "9", "f", "3", "3", "6", "6", "9", "4", "3", "5", "e", "7", "e", "f", "1", "b", "e", "a", "e", "d">> :>
        [symbol |-> <<"U", "S", "D", "C">>, decimals |-> 6, name |-> <<"U", "S", "D", " ", "C", "o", "i", "n">>])
      @@ (<<"e", "i", "p", "1", "5", "5", ":", "1", "3", "7", "/", "e", "r", "c", "2", "0", ":", "0", "x", "5", "a", "a", "e", "b", "6", "0", "5", "3", "f", "3", "e", "9", "4", "c", "9", "b", "9", "a", "0", "9", "f", "3", "3", "6", "6", "9", "4", "3", "5", "e", "7", "e", "f", "1", "b", "e", "a", "e", "d">> :>
        [symbol |-> <<"P", "U", "S", "D">>, decimals |-> 3, name |-> <<"P", "o", "l", "y", "g", "o", "n", " ", "U", "S", "D">>])
      @@ (<<"e", "i", "p", "1", "5", "5", ":", "1", "5", "0", "0", "0", "0", "0", "/", "e", "r", "c", "2", "0", ":", "0", "x", "5", "a", "a", "e", "b", "6", "0", "5", "3", "f", "3", "e", "9", "4", "c", "9", "b", "9", "a", "0", "9", "f", "3", "3", "6", "6", "9", "4", "3", "5", "e", "7", "e", "f", "1", "b", "e", "a", "e", "d">> :>
        [symbol |-> <<"T", "K", "N">>, decimals |-> 2, name |-> <<"T", "o", "k", "e", "n">>])}

\* the messages of the typed data: one with an array of one item, and
\* messages whose members are named as calldata arguments are numbered, so
\* that one field list reads both
ItemsMessage == JObject(<<<<"i", "t", "e", "m", "s">>>>, <<JArray(<<JString(<<"a">>)>>)>>)

Messages ==
    {ItemsMessage,
     JObject(<<<<"0">>, <<"1">>>>, <<JString(AddrAHex), JString(<<"1", "5", "0", "0", "0", "0", "0">>)>>),
     JObject(<<<<"0">>, <<"1">>>>, <<JString(AddrAHex), JNumber(<<"1", "5", "0", "0", "0", "0", "0">>)>>),
     JObject(<<<<"0">>>>, <<JNumber(<<"1", "7", "6", "6", "1", "5", "1", "7", "4", "1">>)>>),
     JObject(<<<<"0">>>>, <<JString(<<"2", "5", "3", "4", "0", "2", "3", "0", "0", "8", "0", "0">>)>>),
     JObject(<<<<"0">>>>, <<JString(<<"9", "2", "2", "3", "3", "7", "2", "0", "3", "6", "8", "5", "4", "7", "7", "5", "8", "0", "8">>)>>),
     JObject(<<<<"0">>>>, <<JString(<<"$", "{", "0", "}">>)>>)}

\* TypedData
TypedData(primary_type, chain_id, message) ==
    [primary_type |-> primary_type, domain |-> [chain_id |-> chain_id], message |-> message]

TypedDatas ==
    {TypedData(PermitKey, Some(<<"1">>), message) : message \in Messages}
        \cup {TypedData(<<"O", "r", "d", "e", "r">>, None, JObject(<<>>, <<>>))}

(***************************************************************************)
(* The standard ABI encoding of a value, from which the well-formed        *)
(* buffers of the model are made                                           *)
(***************************************************************************)
\* the largest number of elements of an encoded dynamic array
MaxItems == 2

\* the 32-byte word of a number below 65536
WordOf(n) == Word(<<n \div 256, n % 256>>)

\* the bytes padded with zeros to a multiple of 32
PadRight(b) == b \o [i \in 1..((32 - (Len(b) % 32)) % 32) |-> 0]

\* the byte of an ASCII character
CharByte(c) == (CHOOSE i \in 1..Len(AsciiChars) : AsciiChars[i] = c) - 1

RECURSIVE StaticSize(_)
\* the bytes a type takes in the head of its enclosing object
StaticSize(param) ==
    IF is_dynamic(param) THEN 32
    ELSE CASE param.t = "FixedArray" -> param.size * StaticSize(param.inner)
           [] param.t = "Tuple" ->
                 IF param.members = <<>> THEN 0
                 ELSE StaticSize(Head(param.members)) + StaticSize(Tuple(Tail(param.members)))
           [] OTHER -> 32

RECURSIVE HeadsSize(_)
HeadsSize(types) ==
    IF types = <<>> THEN 0 ELSE StaticSize(Head(types)) + HeadsSize(Tail(types))

RECURSIVE AbiEncode(_, _)
RECURSIVE EncodeSeq(_, _, _, _, _)
\* the encoding of a row of values: the heads, a dynamic value's head being
\* its offset from the start of the row, and then the tails
EncodeSeq(types, values, i, heads, tails) ==
    IF i > Len(types) THEN heads \o tails
    ELSE IF is_dynamic(types[i])
    THEN EncodeSeq(types, values, i + 1,
                   heads \o WordOf(HeadsSize(types) + Len(tails)),
                   tails \o AbiEncode(types[i], values[i]))
    ELSE EncodeSeq(types, values, i + 1, heads \o AbiEncode(types[i], values[i]), tails)

AbiEncode(param, value) ==
    CASE param.t = "Address" -> Word(value.bytes)
      [] param.t \in {"Uint", "Int"} -> value.bytes
      [] param.t = "Bool" -> WordOf(IF value.b THEN 1 ELSE 0)
      [] param.t = "FixedBytes" -> PadRight(value.bytes)
      [] param.t = "Bytes" -> WordOf(Len(value.bytes)) \o PadRight(value.bytes)
      [] param.t = "String" ->
            WordOf(Len(value.s)) \o PadRight([i \in 1..Len(value.s) |-> CharByte(value.s[i])])
      [] param.t = "Array" ->
            WordOf(Len(value.items))
                \o EncodeSeq([i \in 1..Len(value.items) |-> param.inner], value.items, 1, <<>>, <<>>)
      [] param.t = "FixedArray" ->
            EncodeSeq([i \in 1..param.size |-> param.inner], value.items, 1, <<>>, <<>>)
      [] param.t = "Tuple" -> EncodeSeq(param.members, value.items, 1, <<>>, <<>>)

RECURSIVE ValuesOf(_)
RECURSIVE RowsOf(_)
\* the rows of values of a row of types
RowsOf(types) ==
    IF types = <<>> THEN {<<>>}
    ELSE {<<first>> \o rest : first \in ValuesOf(Head(types)), rest \in RowsOf(Tail(types))}

\* the values of a type the model encodes; a bytesN of more than 32 bytes
\* has no encoding
ValuesOf(param) ==
    CASE param.t = "Address" -> {AddressV(AddrA)}
      [] param.t = "Uint" -> {UintV(WordOf(7))}
      [] param.t = "Int" -> {IntV(WordOnes)}
      [] param.t = "Bool" -> {BoolV(TRUE)}
      [] param.t = "FixedBytes" ->
            IF param.size <= 32 THEN {FixedBytesV([i \in 1..param.size |-> 171])} ELSE {}
      [] param.t = "Bytes" -> {BytesV(<<1, 2>>)}
      [] param.t = "String" -> {StringV(<<"a">>), StringV(<<"h", "i">>)}
      [] param.t = "Array" ->
            {ArrayV(items) : items \in SeqsUpTo(ValuesOf(param.inner), MaxItems)}
      [] param.t = "FixedArray" ->
            {ArrayV(items) : items \in [1..param.size -> ValuesOf(param.inner)]}
      [] param.t = "Tuple" -> {TupleV(items) : items \in RowsOf(param.members)}

\* the buffers that hold a standard encoding of arguments for a signature
Encoded(sig) ==
    {sig.selector \o EncodeSeq(sig.params, values, 1, <<>>, <<>>) : values \in RowsOf(sig.params)}

\* the caller's address books
BookNames == {"a", "b"}

\* one address in three spellings, and another address
BookAddresses ==
    {<<"0", "x", "A", "b">>, <<"0", "x", "a", "b">>, <<"0", "X", "A", "B">>,
     <<"0", "x", "c", "d">>}

BookLabels == {<<"A">>, <<"B">>}

BookDeployments == {<<>>, <<<<"0", "x", "A", "b">>>>}

\* the address_book map of the metadata in an order of iteration; two of its
\* keys can differ only in case
BookMetadatas ==
    {[contract_name |-> name, address_book |-> entries, enums |-> <<>>, maps |-> <<>>] :
        name \in {None, Some(<<"A">>)},
        entries \in {<<>>,
                     <<[key |-> <<"0", "x", "C", "D">>, value |-> <<"B">>]>>,
                     <<[key |-> <<"0", "x", "A", "B">>, value |-> <<"B">>],
                       [key |-> <<"0", "x", "a", "b">>, value |-> <<"A">>]>>}}

\* chain ids as decimal numerals, one a prefix of the other
BookChains == {<<"1">>, <<"1", "0">>}

TokenAddresses == {<<"0", "x", "A", "b">>, <<"0", "x", "a", "b">>}

TokenMetas ==
    {[symbol |-> <<"U", "S", "D", "C">>, decimals |-> 6, name |-> <<"U", "S", "D", " ", "C", "o", "i", "n">>],
     [symbol |-> <<"D", "A", "I">>, decimals |-> 18, name |-> <<"D", "a", "i">>]}

(***************************************************************************)
(* The state machine: a caller makes one call at a time                    *)
(***************************************************************************)
\* no call is under way
Idle == [op |-> "idle"]

Init ==
    /\ overflow_checks \in BOOLEAN
    /\ call = Idle
    /\ returned = Idle
    /\ books = [self \in BookNames |-> empty]
    /\ tokens = new

\* parse_signature, then decode_calldata with the signature it returned
DecodeCalldata ==
    /\ call = Idle
    /\ \E signature \in Signatures :
         LET sig == parse_signature(signature) IN
         \E calldata \in (IF sig.ok THEN Buffers(sig.val.selector) \cup Encoded(sig.val)
                          ELSE {<<>>}) :
            /\ call' = [op |-> "decode_calldata", signature |-> signature,
                        calldata |-> calldata]
            /\ returned' = IF sig.ok THEN decode_calldata(sig.val, calldata) ELSE sig
    /\ UNCHANGED <<overflow_checks, books, tokens>>

\* decoder::parse_signature
ParseSignature ==
    /\ call = Idle
    /\ \E signature \in SignatureTexts :
            /\ call' = [op |-> "parse_signature", signature |-> signature]
            /\ returned' = parse_signature(signature)
    /\ UNCHANGED <<overflow_checks, books, tokens>>

\* lib::format_calldata
FormatCalldata ==
    /\ call = Idle
    /\ \E descriptor \in Descriptors, calldata \in Calldatas, token_source \in TokenSources :
            /\ call' = [op |-> "format_calldata", descriptor |-> descriptor,
                        calldata |-> calldata, token_source |-> token_source]
            /\ returned' = format_calldata(descriptor, <<"1">>, calldata, token_source)
    /\ UNCHANGED <<overflow_checks, books, tokens>>

\* lib::format_typed_data
FormatTypedData ==
    /\ call = Idle
    /\ \E descriptor \in Descriptors, data \in TypedDatas, token_source \in TokenSources :
            /\ call' = [op |-> "format_typed_data", descriptor |-> descriptor,
                        data |-> data, token_source |-> token_source]
            /\ returned' = format_typed_data(descriptor, data, token_source)
    /\ UNCHANGED <<overflow_checks, books, tokens>>

\* the caller takes the result; the next call can be made
Return ==
    /\ call # Idle
    /\ call' = Idle
    /\ returned' = Idle
    /\ UNCHANGED <<overflow_checks, books, tokens>>

Next == ParseSignature \/ DecodeCalldata \/ FormatCalldata \/ FormatTypedData \/ Return

Spec == Init /\ [][Next]_vars

(***************************************************************************)
(* The address books and the token source a caller builds                  *)
(***************************************************************************)
\* self = AddressBook::empty()
Empty ==
    /\ \E self \in BookNames :
            /\ call' = [op |-> "empty", self |-> self]
            /\ books' = [books EXCEPT ![self] = empty]
    /\ returned' = Idle
    /\ UNCHANGED <<overflow_checks, tokens>>

\* self = AddressBook::from_descriptor(context, metadata)
FromDescriptor ==
    /\ \E self \in BookNames, deployments \in BookDeployments, metadata \in BookMetadatas :
            /\ call' = [op |-> "from_descriptor", self |-> self,
                        deployments |-> deployments, metadata |-> metadata]
            /\ books' = [books EXCEPT ![self] = from_descriptor(deployments, metadata)]
    /\ returned' = Idle
    /\ UNCHANGED <<overflow_checks, tokens>>

\* self.insert(address, label)
Insert ==
    /\ \E self \in BookNames, address \in BookAddresses, label \in BookLabels :
            /\ call' = [op |-> "insert", self |-> self, address |-> address, label |-> label]
            /\ books' = [books EXCEPT ![self] = insert(@, address, label)]
    /\ returned' = Idle
    /\ UNCHANGED <<overflow_checks, tokens>>

\* self.merge(&other); the call records the books as they were
Merge ==
    /\ \E self \in BookNames, other \in BookNames :
            /\ self # other
            /\ call' = [op |-> "merge", self |-> self, other |-> other, before |-> books]
            /\ books' = [books EXCEPT ![self] = merge(@, books[other])]
    /\ returned' = Idle
    /\ UNCHANGED <<overflow_checks, tokens>>

\* tokens.insert(chain_id, address, meta); the call records the source as it was
TokenInsert ==
    /\ \E chain_id \in BookChains, address \in TokenAddresses, meta \in TokenMetas :
            /\ call' = [op |-> "token_insert", chain_id |-> chain_id, address |-> address,
                        meta |-> meta, before |-> tokens]
            /\ tokens' = token_insert(tokens, chain_id, address, meta)
    /\ returned' = Idle
    /\ UNCHANGED <<overflow_checks, books>>

BooksNext == Empty \/ FromDescriptor \/ Insert \/ Merge \/ TokenInsert

Books == Init /\ [][BooksNext]_vars

(***************************************************************************)
(* Amounts written with decimals                                           *)
(***************************************************************************)
MaxAmount == 1100

MaxDecimals == 7

\* the amounts of the model: every amount up to MaxAmount, powers of ten,
\* amounts of many digits and the largest 32-bit integer
Amounts == (0..MaxAmount) \cup {1000000, 1500000, 123456789, 1000000000, 2147483647}

\* the decimals of the model: up to MaxDecimals, 9 and 10 around the digits
\* of the largest amount, 18, and the largest u8
DecimalPlaces == (0..MaxDecimals) \cup {9, 10, 18, 255}

\* format_with_decimals(&BigUint::from(amount), decimals)
FormatWithDecimals ==
    /\ call = Idle
    /\ \E amount \in Amounts, decimals \in DecimalPlaces :
            /\ call' = [op |-> "format_with_decimals", amount |-> amount, decimals |-> decimals]
            /\ returned' = format_with_decimals(NatToString(amount), decimals)
    /\ UNCHANGED <<overflow_checks, books, tokens>>

DecimalsNext == FormatWithDecimals \/ Return

Decimals == Init /\ [][DecimalsNext]_vars

(***************************************************************************)
(* What the properties below read from the state                           *)
(***************************************************************************)
Contains(s, sub) == Find(s, sub) # 0

\* the state holds the result of a format_calldata call whose buffer holds a selector
CalldataCall == call.op = "format_calldata" /\ Len(call.calldata) >= 4

\* the signature that call finds for the selector, and the arguments it decodes
CallFound == find_matching_signature(call.descriptor, SubSeq(call.calldata, 1, 4))

CallDecoded == decode_calldata(CallFound.val.sig, call.calldata)

\* the context either pipeline renders the fields in
CalldataContext ==
    [typed |-> FALSE, descriptor |-> call.descriptor, decoded |-> CallDecoded.val,
     chain_id |-> <<"1">>, token_source |-> call.token_source,
     address_book |-> from_descriptor(call.descriptor.context.deployments,
                                      call.descriptor.metadata)]

TypedContext ==
    [typed |-> TRUE, descriptor |-> call.descriptor, message |-> call.data.message,
     chain_id |-> IF call.data.domain.chain_id.some THEN call.data.domain.chain_id.val
                  ELSE <<"1">>,
     token_source |-> call.token_source,
     address_book |-> from_descriptor(call.descriptor.context.deployments,
                                      call.descriptor.metadata)]

\* the format the call selects and the context it renders it in, if it
\* comes to select one
Selection ==
    IF CalldataCall THEN
        IF CallFound.ok /\ CallDecoded.ok THEN
            LET format == find_format(call.descriptor, CallDecoded.val.function_name,
                                      CallDecoded.val.selector)
            IN  IF format.ok THEN Some([c |-> CalldataContext, format |-> format.val]) ELSE None
        ELSE None
    ELSE IF call.op = "format_typed_data" THEN
        LET format == EntriesGet(call.descriptor.display.formats, call.data.primary_type) IN
        IF format.some THEN Some([c |-> TypedContext, format |-> format.val]) ELSE None
    ELSE None

\* the definition a reference names, as each pipeline looks it up
Referred(c, reference) ==
    IF c.typed
    THEN MapGet(c.descriptor.display.definitions,
                StripPrefixOr(reference, <<"#", "/", "d", "e", "f", "i", "n", "i", "t", "i", "o", "n", "s", "/">>))
    ELSE resolve_reference(c.descriptor, reference)

\* the resolver of the pipeline returns from the path
PathReturns(c, path) == c.typed => resolve_typed_path(c.message, path).ok

\* the value a path resolves to, as each pipeline resolves it; none when
\* the resolver does not return
Resolved(c, path) ==
    IF ~c.typed THEN resolve_path(c.decoded, path)
    ELSE IF PathReturns(c, path) THEN resolve_typed_path(c.message, path).val
    ELSE None

Shown(c, field, value) ==
    IF c.typed THEN check_typed_visibility(field.visible, value)
    ELSE check_visibility(field.visible, value)

RECURSIVE DisplayedLeaves(_, _, _)
\* the Simple fields a field list displays, in order, each with the value
\* its path resolves to: groups are opened and references followed, n levels deep
DisplayedLeaves(c, fields, n) ==
    IF fields = <<>> \/ n = 0 THEN <<>>
    ELSE LET field == Head(fields)
             here == CASE field.f = "Simple" ->
                            LET value == Resolved(c, field.path) IN
                            IF Shown(c, field, value)
                            THEN <<[field |-> field, value |-> value]>> ELSE <<>>
                       [] field.f = "Group" -> DisplayedLeaves(c, field.fields, n - 1)
                       [] field.f = "Reference" ->
                            LET definition == Referred(c, field.reference) IN
                            IF definition.some
                            THEN DisplayedLeaves(c, <<definition.val>>, n - 1) ELSE <<>>
         IN  here \o DisplayedLeaves(c, Tail(fields), n)

SelectedLeaves == DisplayedLeaves(Selection.val.c, Selection.val.format.fields, StackDepth)

\* the Result of formatting one displayed field on its own
LeafFormatted(c, leaf) ==
    IF c.typed
    THEN format_typed_value(c.descriptor, <<>>, leaf.value, leaf.field.format,
                            leaf.field.params, c.chain_id, c.message, c.token_source,
                            c.address_book).r
    ELSE format_value(c, <<>>, leaf.value, leaf.field.format, leaf.field.params,
                      leaf.field.path).r

\* the items of the model the call returned, the groups opened
ReturnedItems == FlattenEntries(returned.val.entries)

(***************************************************************************)
(* C1                                                                      *)
(***************************************************************************)
RECURSIVE HeadSize(_)
\* the bytes the standard ABI encoding of a static type takes
HeadSize(param) ==
    CASE param.t = "FixedArray" -> param.size * HeadSize(param.inner)
      [] param.t = "Tuple" ->
            IF param.members = <<>> THEN 0
            ELSE HeadSize(Head(param.members)) + HeadSize(Tuple(Tail(param.members)))
      [] OTHER -> 32

\* the offset of the i-th of a sequence of static types laid out in a row
OffsetOf(params, i) == HeadSize(Tuple(SubSeq(params, 1, i - 1)))

RECURSIVE AbiValue(_, _, _)
\* the value the standard ABI layout holds for a static type at an offset
AbiValue(param, data, offset) ==
    CASE param.t = "Address" -> AddressV(SubSeq(data, offset + 13, offset + 32))
      [] param.t = "Uint" -> UintV(SubSeq(data, offset + 1, offset + 32))
      [] param.t = "Int" -> IntV(SubSeq(data, offset + 1, offset + 32))
      [] param.t = "Bool" -> BoolV(data[offset + 32] # 0)
      [] param.t = "FixedBytes" -> FixedBytesV(SubSeq(data, offset + 1, offset + param.size))
      [] param.t = "FixedArray" ->
            ArrayV([i \in 1..param.size |->
                       AbiValue(param.inner, data, offset + (i - 1) * HeadSize(param.inner))])
      [] param.t = "Tuple" ->
            TupleV([i \in 1..Len(param.members) |->
                       AbiValue(param.members[i], data, offset + OffsetOf(param.members, i))])

RECURSIVE WellFormed(_, _, _)
\* the bytes at an offset are a standard encoding of the static type
WellFormed(param, data, offset) ==
    CASE param.t = "Address" -> \A i \in 1..12 : data[offset + i] = 0
      [] param.t = "Bool" ->
            (\A i \in 1..31 : data[offset + i] = 0) /\ data[offset + 32] \in {0, 1}
      [] param.t = "FixedBytes" ->
            param.size <= 32 /\ \A i \in (param.size + 1)..32 : data[offset + i] = 0
      [] param.t = "FixedArray" ->
            \A i \in 1..param.size :
                WellFormed(param.inner, data, offset + (i - 1) * HeadSize(param.inner))
      [] param.t = "Tuple" ->
            \A i \in 1..Len(param.members) :
                WellFormed(param.members[i], data, offset + OffsetOf(param.members, i))
      [] OTHER -> TRUE

\* the state holds the result of decoding a standard encoding of static parameters
StaticCall ==
    /\ call.op = "decode_calldata"
    /\ LET sig == parse_signature(call.signature) IN
       /\ sig.ok
       /\ ~is_dynamic(Tuple(sig.val.params))
       /\ Len(call.calldata) = 4 + HeadSize(Tuple(sig.val.params))
       /\ SubSeq(call.calldata, 1, 4) = sig.val.selector
       /\ WellFormed(Tuple(sig.val.params), Drop(call.calldata, 5), 0)

\* C1: for a signature whose parameters are all static and a buffer that
\* holds a standard ABI encoding of arguments for it, decode_calldata returns
\* for each parameter the value the standard layout places there.
C1_StaticLayout ==
    StaticCall =>
        LET params == parse_signature(call.signature).val.params
            data == Drop(call.calldata, 5)
        IN  /\ returned.ok
            /\ Len(returned.val.args) = Len(params)
            /\ \A i \in 1..Len(params) :
                  returned.val.args[i].value = AbiValue(params[i], data, OffsetOf(params, i))

(***************************************************************************)
(* C2                                                                      *)
(***************************************************************************)
\* C2: when a key of display.formats parses to a signature whose selector is
\* that of the calldata, in whatever form the key is written, and the
\* calldata decodes and the fields of the format under that key render,
\* format_calldata returns Ok with that format's intent and entries.
C2_KeyFormRendered ==
    (CalldataCall /\ CallFound.ok /\ CallDecoded.ok) =>
        LET format == EntriesGet(call.descriptor.display.formats, CallFound.val.key).val
            entries == render_fields(CalldataContext, <<>>, format.fields, 0)
        IN  (entries.r.ok /\ ~format.interpolated_intent.some) =>
                /\ returned.ok
                /\ returned.val.entries = entries.r.val
                /\ returned.val.intent = IF format.intent.some THEN format.intent.val
                                         ELSE CallDecoded.val.function_name

(***************************************************************************)
(* C3                                                                      *)
(***************************************************************************)
\* C3: decode_calldata is total: for every signature the parser accepts and
\* every buffer it returns Ok or a DecodeError, and never panics.
C3_DecodeTotal ==
    call.op = "decode_calldata" => (returned.ok \/ returned.err.kind = "Decode")

(***************************************************************************)
(* C4                                                                      *)
(***************************************************************************)
\* C4: in both pipelines a displayed Simple field whose path does not resolve
\* yields the item "<unresolved>" and a warning that names the path.
C4_UnresolvedWarned ==
    (Selection.some /\ returned.ok) =>
        \A k \in 1..Len(SelectedLeaves) :
            ~SelectedLeaves[k].value.some =>
                /\ ReturnedItems[k].value = <<"<", "u", "n", "r", "e", "s", "o", "l", "v", "e", "d", ">">>
                /\ \E w \in 1..Len(returned.val.warnings) :
                      Contains(returned.val.warnings[w], SelectedLeaves[k].field.path)

(***************************************************************************)
(* C5                                                                      *)
(***************************************************************************)
\* the decimal text of the amount a value holds, if it holds one
AmountText(c, value) ==
    IF c.typed THEN
        (IF value.j = "String" /\ IsNumeral(value.s) THEN Some(StripZeros(value.s))
         ELSE IF value.j = "Number" THEN Some(value.n)
         ELSE None)
    ELSE IF value.v \in {"Uint", "Int"} THEN Some(biguint_to_string(value.bytes))
    ELSE None

\* C5: in both pipelines a TokenAmount field for which the token source has
\* no metadata renders the bare decimal amount and records a warning.
C5_TokenMissWarned ==
    (Selection.some /\ returned.ok /\ call.token_source = <<>>) =>
        \A k \in 1..Len(SelectedLeaves) :
            LET leaf == SelectedLeaves[k] IN
            (/\ leaf.field.format.some
             /\ leaf.field.format.val = "TokenAmount"
             /\ leaf.value.some
             /\ AmountText(Selection.val.c, leaf.value.val).some) =>
                /\ ReturnedItems[k].value = AmountText(Selection.val.c, leaf.value.val).val
                /\ returned.val.warnings # <<>>

(***************************************************************************)
(* C6                                                                      *)
(***************************************************************************)
\* C6: for a format with the date field at @.0 and the template
\* "Increase unlock time to ${@.0}", the interpolated intent format_calldata
\* returns ends with the text the field shows.
C6_InterpolatedAsShown ==
    (/\ Selection.some
     /\ call.op = "format_calldata"
     /\ returned.ok
     /\ Selection.val.format.fields = <<DateField>>
     /\ Selection.val.format.interpolated_intent.some
     /\ Selection.val.format.interpolated_intent.val = UnlockTemplate) =>
        /\ returned.val.interpolated_intent.some
        /\ returned.val.interpolated_intent.val =
              <<"I", "n", "c", "r", "e", "a", "s", "e", " ", "u", "n", "l", "o", "c", "k", " ", "t", "i", "m", "e", " ", "t", "o", " ">> \o returned.val.entries[1].item.value

(***************************************************************************)
(* C7                                                                      *)
(***************************************************************************)
RECURSIVE OnePass(_, _)
\* the template with each placeholder replaced once, left to right: the text
\* outside placeholders and the text put in are not read again
OnePass(template, decoded) ==
    LET start == Find(template, <<"$", "{">>)
        end == IF start = 0 THEN 0 ELSE FindFrom(template, <<"}">>, start)
    IN  IF start = 0 \/ end = 0 THEN template
        ELSE LET v == resolve_path(decoded, SubSeq(template, start + 2, end - 1)) IN
             SubSeq(template, 1, start - 1)
                 \o (IF v.some THEN format_raw(v.val) ELSE <<"<", "?", ">">>)
                 \o OnePass(Drop(template, end + 1), decoded)

\* C7: the interpolated intent is the template with each placeholder
\* replaced, left to right, by the raw form of the value its path resolves to
\* or by "<?>", the text outside placeholders as written, and everything
\* from a "${" without a "}" as written.
C7_InterpolatedOnce ==
    (/\ Selection.some
     /\ call.op = "format_calldata"
     /\ Selection.val.format.interpolated_intent.some
     /\ render_fields(Selection.val.c, <<>>, Selection.val.format.fields, 0).r.ok) =>
        /\ returned.ok
        /\ returned.val.interpolated_intent.some
        /\ returned.val.interpolated_intent.val =
              OnePass(Selection.val.format.interpolated_intent.val, CallDecoded.val)

(***************************************************************************)
(* C8                                                                      *)
(***************************************************************************)
\* C8: a render returns no half-formed model. A calldata that does not
\* decode makes format_calldata return the decoder's error; a displayed
\* field, at any depth of groups and references, whose formatting fails with
\* a Render error makes either pipeline return an error; and a model that is
\* returned holds, in order, the item of every displayed field of the format.
C8_NoHalfFormedModel ==
    /\ (CalldataCall /\ CallFound.ok /\ ~CallDecoded.ok) => returned = CallDecoded
    /\ Selection.some =>
          LET c == Selection.val.c
              leaves == SelectedLeaves
              formatted == [k \in 1..Len(leaves) |-> LeafFormatted(c, leaves[k])]
          IN  /\ (\E k \in 1..Len(leaves) :
                      ~formatted[k].ok /\ formatted[k].err.kind = "Render") => ~returned.ok
              /\ returned.ok =>
                    ReturnedItems = [k \in 1..Len(leaves) |->
                                        [label |-> leaves[k].field.label,
                                         value |-> formatted[k].val]]

\* a date out of range two groups deep has ended a format_calldata call with
\* the Render error of the date
C8_Witness ==
    /\ Selection.some
    /\ call.op = "format_calldata"
    /\ \E i \in 1..Len(Selection.val.format.fields) :
          Selection.val.format.fields[i] = NestedGroup
    /\ ~returned.ok
    /\ returned.err = RenderError(invalid_timestamp)

(***************************************************************************)
(* C9                                                                      *)
(***************************************************************************)
\* the key parses to a signature that has the selector
KeyMatches(key, selector) ==
    /\ Find(key, <<"(">>) # 0
    /\ parse_signature(key).ok
    /\ parse_signature(key).val.selector = selector

\* C9: when no key of display.formats parses to a signature with the
\* calldata's selector, keys that do not parse among them, format_calldata
\* returns the Render error that names the selector; when no key equals the
\* primary type, format_typed_data returns the Render error that names the type.
C9_NoMatchIsRenderError ==
    /\ (/\ CalldataCall
        /\ \A i \in 1..Len(call.descriptor.display.formats) :
              ~KeyMatches(call.descriptor.display.formats[i].key, SubSeq(call.calldata, 1, 4)))
       => returned = Err(RenderError(<<"n", "o", " ", "m", "a", "t", "c", "h", "i", "n", "g", " ", "f", "o", "r", "m", "a", "t", " ", "k", "e", "y", " ", "f", "o", "r", " ", "s", "e", "l", "e", "c", "t", "o", "r", " ", "0", "x">>
                                     \o hex_encode(SubSeq(call.calldata, 1, 4))))
    /\ (/\ call.op = "format_typed_data"
        /\ \A i \in 1..Len(call.descriptor.display.formats) :
              call.descriptor.display.formats[i].key # call.data.primary_type)
       => returned = Err(RenderError(<<"n", "o", " ", "d", "i", "s", "p", "l", "a", "y", " ", "f", "o", "r", "m", "a", "t", " ", "f", "o", "u", "n", "d", " ", "f", "o", "r", " ", "p", "r", "i", "m", "a", "r", "y", " ", "t", "y", "p", "e", " ", "'">>
                                     \o call.data.primary_type \o <<"'">>))

\* a format_calldata call on a descriptor whose only key does not parse has
\* returned the Render error that names the selector
C9_Witness ==
    /\ CalldataCall
    /\ Len(call.descriptor.display.formats) = 1
    /\ call.descriptor.display.formats[1].key = UnclosedKey
    /\ ~parse_signature(UnclosedKey).ok
    /\ ~returned.ok
    /\ returned.err.kind = "Render"
    /\ Contains(returned.err.what, hex_encode(SubSeq(call.calldata, 1, 4)))

(***************************************************************************)
(* C10                                                                     *)
(***************************************************************************)
\* C10: the recursion of the field walker is capped: no render, of whatever
\* descriptor, ends by overflowing the call stack.
C10_WalkerCapped ==
    call.op \in {"format_calldata", "format_typed_data"} =>
        (returned.ok \/ returned.err.kind # "StackOverflow")

(***************************************************************************)
(* C11                                                                     *)
(***************************************************************************)
\* the JSON value a rule is asked about: the resolved value of the typed
\* data, the JSON form of the resolved argument of the calldata
RuleValue(c, value) ==
    IF ~value.some THEN None
    ELSE IF c.typed THEN value
    ELSE Some(to_json_value(value.val))

InList(list, x) == \E i \in 1..Len(list) : list[i] = x

\* the visibility of a field as the rules are stated
VisibleAsStated(rule, value) ==
    CASE rule.r = "Always" -> TRUE
      [] rule.r = "Bool" -> rule.b
      [] rule.r = "Named" -> rule.s # <<"n", "e", "v", "e", "r">>
      [] rule.r = "Condition" ->
            \/ ~value.some
            \/ /\ rule.if_not_in.some => ~InList(rule.if_not_in.val, value.val)
               /\ rule.must_be.some => InList(rule.must_be.val, value.val)

\* the state holds the result of rendering a format of one Simple field,
\* from whose path the resolver returns, and no interpolated intent
OneFieldCase ==
    /\ Selection.some
    /\ Len(Selection.val.format.fields) = 1
    /\ Selection.val.format.fields[1].f = "Simple"
    /\ PathReturns(Selection.val.c, Selection.val.format.fields[1].path)
    /\ ~Selection.val.format.interpolated_intent.some

\* that field with the value its path resolves to
OneLeaf ==
    [field |-> Selection.val.format.fields[1],
     value |-> Resolved(Selection.val.c, Selection.val.format.fields[1].path)]

OneLeafVisible ==
    VisibleAsStated(OneLeaf.field.visible, RuleValue(Selection.val.c, OneLeaf.value))

RECURSIVE FieldPaths(_, _)
\* the places of the Simple fields of a field list: <<i>> is fields[i],
\* <<i, j>> the j-th field of the group fields[i], and so on n levels deep
FieldPaths(fields, n) ==
    IF n = 0 THEN {}
    ELSE UNION {CASE fields[i].f = "Simple" -> {<<i>>}
                  [] fields[i].f = "Group" ->
                        {<<i>> \o at : at \in FieldPaths(fields[i].fields, n - 1)}
                  [] OTHER -> {} : i \in 1..Len(fields)}

RECURSIVE FieldAtPath(_, _)
FieldAtPath(fields, at) ==
    IF Len(at) = 1 THEN fields[at[1]] ELSE FieldAtPath(fields[at[1]].fields, Tail(at))

RECURSIVE HideAtPath(_, _)
\* the field list with the field at a place changed to `visible: false`
HideAtPath(fields, at) ==
    [fields EXCEPT ![at[1]] =
        IF Len(at) = 1 THEN [@ EXCEPT !.visible = VBool(FALSE)]
        ELSE [@ EXCEPT !.fields = HideAtPath(@, Tail(at))]]

RECURSIVE Expansions(_, _, _, _)
\* the number of times the walk of a field list expands the definition
\* under a key
Expansions(c, fields, key, n) ==
    IF fields = <<>> \/ n = 0 THEN 0
    ELSE LET field == Head(fields)
             here == CASE field.f = "Simple" -> 0
                       [] field.f = "Group" -> Expansions(c, field.fields, key, n - 1)
                       [] field.f = "Reference" ->
                            LET definition == Referred(c, field.reference) IN
                            IF ~definition.some THEN 0
                            ELSE (IF definition.val = c.descriptor.display.definitions[key]
                                  THEN 1 ELSE 0)
                                 + Expansions(c, <<definition.val>>, key, n - 1)
         IN  here + Expansions(c, Tail(fields), key, n)

RECURSIVE RemoveAt(_, _, _)
\* the entries without the items at the positions R, the items counted
\* from base + 1 through the groups; a group left without items is removed
RemoveAt(entries, R, base) ==
    IF entries = <<>> THEN <<>>
    ELSE IF entries[1].e = "Item"
    THEN (IF base + 1 \in R THEN <<>> ELSE <<entries[1]>>)
         \o RemoveAt(Tail(entries), R, base + 1)
    ELSE LET kept == SelectSeq([j \in 1..Len(entries[1].items) |->
                                  [at |-> base + j, item |-> entries[1].items[j]]],
                               LAMBDA x : x.at \notin R)
         IN  (IF kept = <<>> THEN <<>>
              ELSE <<[entries[1] EXCEPT !.items = [j \in 1..Len(kept) |-> kept[j].item]]>>)
             \o RemoveAt(Tail(entries), R, base + Len(entries[1].items))

\* the entries `after` are the entries `before` without exactly n items
Removes(before, after, n) ==
    \E R \in SUBSET (1..Len(FlattenEntries(before))) :
        Cardinality(R) = n /\ after = RemoveAt(before, R, 0)

\* the state holds a model rendered from a descriptor of one format
MonotoneCase ==
    /\ Selection.some
    /\ returned.ok
    /\ Len(call.descriptor.display.formats) = 1

\* the call of the state made again with another descriptor
RenderedWith(descriptor) ==
    IF call.op = "format_calldata"
    THEN format_calldata(descriptor, <<"1">>, call.calldata, call.token_source)
    ELSE format_typed_data(descriptor, call.data, call.token_source)

HiddenInList(descriptor, at) ==
    [descriptor EXCEPT !.display.formats[1].value.fields = HideAtPath(@, at)]

HiddenDefinition(descriptor, key) ==
    [descriptor EXCEPT !.display.definitions[key].visible = VBool(FALSE)]

\* the field is one the render of the state displays
VisibleField(field) ==
    VisibleAsStated(field.visible,
                    RuleValue(Selection.val.c, Resolved(Selection.val.c, field.path)))

\* the places of the visible Simple fields of the rendered field list, and
\* the keys of the visible Simple definitions the render expands
VisiblePlaces ==
    {at \in FieldPaths(Selection.val.format.fields, StackDepth) :
        VisibleField(FieldAtPath(Selection.val.format.fields, at))}

VisibleDefinitions ==
    {key \in DOMAIN call.descriptor.display.definitions :
        /\ call.descriptor.display.definitions[key].f = "Simple"
        /\ VisibleField(call.descriptor.display.definitions[key])
        /\ Expansions(Selection.val.c, Selection.val.format.fields, key, StackDepth) >= 1}

\* C12 as stated: changing one visible Simple field to `visible: false`,
\* in the field list, in a group or in a definition reached by `$ref`,
\* removes exactly one item from the entries (the whole group if it becomes
\* empty) and changes nothing else.
C12_RemovesOneItem ==
    MonotoneCase =>
        /\ \A at \in VisiblePlaces :
              LET after == RenderedWith(HiddenInList(call.descriptor, at)) IN
              after.ok /\ Removes(returned.val.entries, after.val.entries, 1)
        /\ \A key \in VisibleDefinitions :
              LET after == RenderedWith(HiddenDefinition(call.descriptor, key)) IN
              after.ok /\ Removes(returned.val.entries, after.val.entries, 1)

\* C12: changing one visible Simple field to `visible: false` removes the
\* items rendered from it and changes nothing else in the entries: exactly
\* one item for a field of the field list or of a group, one item for each
\* expansion of the definition for a field of a definition; a group left
\* without items is removed whole.
C12_RemovesItsItems ==
    MonotoneCase =>
        /\ \A at \in VisiblePlaces :
              LET after == RenderedWith(HiddenInList(call.descriptor, at)) IN
              after.ok /\ Removes(returned.val.entries, after.val.entries, 1)
        /\ \A key \in VisibleDefinitions :
              LET after == RenderedWith(HiddenDefinition(call.descriptor, key)) IN
              /\ after.ok
              /\ Removes(returned.val.entries, after.val.entries,
                         Expansions(Selection.val.c, Selection.val.format.fields, key,
                                    StackDepth))

\* a definition expanded twice is hidden: two items go
C12_Witness ==
    /\ MonotoneCase
    /\ \E key \in VisibleDefinitions :
          /\ Expansions(Selection.val.c, Selection.val.format.fields, key, StackDepth) = 2
          /\ Len(RenderedWith(HiddenDefinition(call.descriptor, key)).val.entries)
                = Len(returned.val.entries) - 2

(***************************************************************************)
(* C13                                                                     *)
(***************************************************************************)
RECURSIVE StatedLeaves(_, _, _)
\* the items a field list is to give, in declared order, the groups opened
\* and the references followed n levels deep: one item for every Simple
\* field that is visible as the rules are stated
StatedLeaves(c, fields, n) ==
    IF fields = <<>> \/ n = 0 THEN <<>>
    ELSE LET field == Head(fields)
             here == CASE field.f = "Simple" ->
                            LET value == Resolved(c, field.path) IN
                            IF VisibleAsStated(field.visible, RuleValue(c, value))
                            THEN <<[label |-> field.label,
                                    value |-> LeafFormatted(c, [field |-> field,
                                                                value |-> value]).val]>>
                            ELSE <<>>
                       [] field.f = "Group" -> StatedLeaves(c, field.fields, n - 1)
                       [] field.f = "Reference" ->
                            LET definition == Referred(c, field.reference) IN
                            IF definition.some
                            THEN StatedLeaves(c, <<definition.val>>, n - 1) ELSE <<>>
         IN  here \o StatedLeaves(c, Tail(fields), n)

RECURSIVE StatedEntries(_, _, _)
\* the entries a field list is to give: an item for a visible Simple field,
\* for a group one Group entry under its label holding the items of all it
\* contains, or nothing when it contains no visible field, and for a
\* reference the entries of its definition
StatedEntries(c, fields, n) ==
    IF fields = <<>> \/ n = 0 THEN <<>>
    ELSE LET field == Head(fields)
             here == CASE field.f = "Simple" ->
                            [i \in 1..Len(StatedLeaves(c, <<field>>, 1)) |->
                                [e |-> "Item", item |-> StatedLeaves(c, <<field>>, 1)[i]]]
                       [] field.f = "Group" ->
                            IF StatedLeaves(c, field.fields, n - 1) = <<>> THEN <<>>
                            ELSE <<[e |-> "Group", label |-> field.label,
                                    iteration |-> field.iteration,
                                    items |-> StatedLeaves(c, field.fields, n - 1)]>>
                       [] field.f = "Reference" ->
                            LET definition == Referred(c, field.reference) IN
                            IF definition.some
                            THEN StatedEntries(c, <<definition.val>>, n - 1) ELSE <<>>
         IN  here \o StatedEntries(c, Tail(fields), n)

\* C13: the groups of a returned model are flat and never empty. Every
\* Group entry holds at least one item; a group field whose fields are all
\* hidden, at any depth, gives no entry; the items of a group inside a group
\* stand in the enclosing group's items at the place of the inner group, in
\* declared order, and the inner group's label does not appear.
C13_GroupsFlatNeverEmpty ==
    (Selection.some /\ returned.ok) =>
        /\ \A i \in 1..Len(returned.val.entries) :
              returned.val.entries[i].e = "Group" =>
                  /\ returned.val.entries[i].items # <<>>
                  /\ \A j \in 1..Len(returned.val.entries[i].items) :
                        DOMAIN returned.val.entries[i].items[j] = {"label", "value"}
        /\ returned.val.entries
              = StatedEntries(Selection.val.c, Selection.val.format.fields, StackDepth)

\* a group that holds a group between two fields is followed by a group
\* whose only field is hidden: the model holds one group of three items
C13_Witness ==
    /\ Selection.some
    /\ returned.ok
    /\ Selection.val.format.fields = <<WideGroup, QuietGroup>>
    /\ Len(returned.val.entries) = 1
    /\ returned.val.entries[1].e = "Group"
    /\ Len(returned.val.entries[1].items) = 3

(***************************************************************************)
(* C14                                                                     *)
(***************************************************************************)
\* the warnings formatting one displayed field on its own gives
LeafWarnings(c, leaf) ==
    IF c.typed
    THEN format_typed_value(c.descriptor, <<>>, leaf.value, leaf.field.format,
                            leaf.field.params, c.chain_id, c.message, c.token_source,
                            c.address_book).w
    ELSE format_value(c, <<>>, leaf.value, leaf.field.format, leaf.field.params,
                      leaf.field.path).w

RECURSIVE StatedLabels(_, _, _)
\* the labels of the entries a field list is to give, in declared order: the
\* label of each visible Simple field, for a group its label over the labels
\* of the items it holds, for a reference the labels of its definition
StatedLabels(c, fields, n) ==
    IF fields = <<>> \/ n = 0 THEN <<>>
    ELSE LET field == Head(fields)
             inside == IF field.f = "Group" THEN StatedLeaves(c, field.fields, n - 1)
                       ELSE <<>>
             here == CASE field.f = "Simple" ->
                            IF VisibleAsStated(field.visible,
                                               RuleValue(c, Resolved(c, field.path)))
                            THEN <<[e |-> "Item", label |-> field.label]>> ELSE <<>>
                       [] field.f = "Group" ->
                            IF inside = <<>> THEN <<>>
                            ELSE <<[e |-> "Group", label |-> field.label,
                                    labels |-> [i \in 1..Len(inside) |-> inside[i].label]]>>
                       [] field.f = "Reference" ->
                            LET definition == Referred(c, field.reference) IN
                            IF definition.some
                            THEN StatedLabels(c, <<definition.val>>, n - 1) ELSE <<>>
         IN  here \o StatedLabels(c, Tail(fields), n)

RECURSIVE StatedWarnings(_, _, _)
\* the warnings of a walk that starts without warnings and appends, field
\* by field in the order walked, the warnings of each displayed field and
\* one warning for each reference without a definition
StatedWarnings(c, fields, n) ==
    IF fields = <<>> \/ n = 0 THEN <<>>
    ELSE LET field == Head(fields)
             here == CASE field.f = "Simple" ->
                            LET value == Resolved(c, field.path) IN
                            IF VisibleAsStated(field.visible, RuleValue(c, value))
                            THEN LeafWarnings(c, [field |-> field, value |-> value])
                            ELSE <<>>
                       [] field.f = "Group" -> StatedWarnings(c, field.fields, n - 1)
                       [] field.f = "Reference" ->
                            LET definition == Referred(c, field.reference) IN
                            IF definition.some
                            THEN StatedWarnings(c, <<definition.val>>, n - 1)
                            ELSE <<<<"u", "n", "r", "e", "s", "o", "l", "v", "e", "d", " ", "r", "e", "f", "e", "r", "e", "n", "c", "e", ":", " ">> \o field.reference>>
         IN  here \o StatedWarnings(c, Tail(fields), n)

\* the labels of a list of entries
LabelsOf(entries) ==
    [i \in 1..Len(entries) |->
        IF entries[i].e = "Item" THEN [e |-> "Item", label |-> entries[i].item.label]
        ELSE [e |-> "Group", label |-> entries[i].label,
              labels |-> [j \in 1..Len(entries[i].items) |-> entries[i].items[j].label]]]

\* C14: the entries of a returned model follow the declared order of the
\* field list, each `$ref` expanded in place; every Item carries the label
\* of its Simple field and every Group the label of its field group; the
\* warnings are those of a walk that starts empty and only appends, in the
\* order the fields are walked.
C14_DeclaredOrder ==
    (Selection.some /\ returned.ok) =>
        /\ LabelsOf(returned.val.entries)
              = StatedLabels(Selection.val.c, Selection.val.format.fields, StackDepth)
        /\ returned.val.warnings
              = StatedWarnings(Selection.val.c, Selection.val.format.fields, StackDepth)

\* a reference is expanded beside a group, and the walk gives two warnings
C14_Witness ==
    /\ Selection.some
    /\ returned.ok
    /\ Len(returned.val.entries) >= 2
    /\ Len(returned.val.warnings) >= 2
    /\ returned.val.warnings[1] # returned.val.warnings[2]
    /\ \E i \in 1..Len(Selection.val.format.fields) :
          /\ Selection.val.format.fields[i].f = "Reference"
          /\ Referred(Selection.val.c, Selection.val.format.fields[i].reference).some

(***************************************************************************)
(* C15: address books and token sources are read without regard to case    *)
(***************************************************************************)
\* a lowercase letter of an address and its uppercase
CasePairs ==
    {<<"a", "A">>, <<"b", "B">>, <<"c", "C">>, <<"d", "D">>, <<"e", "E">>, <<"f", "F">>,
     <<"x", "X">>}

SameLetter(c, d) == c = d \/ <<c, d>> \in CasePairs \/ <<d, c>> \in CasePairs

\* a and b differ only in letter case
DifferOnlyInCase(a, b) ==
    Len(a) = Len(b) /\ \A i \in 1..Len(a) : SameLetter(a[i], b[i])

IsLowercase(s) == \A i \in 1..Len(s) : \A p \in CasePairs : s[i] # p[2]

\* the addresses asked for: those inserted, other spellings of them, and one
\* that is never inserted
BookQueries ==
    BookAddresses \cup TokenAddresses
        \cup {<<"0", "x", "a", "B">>, <<"0", "X", "c", "D">>, <<"0", "x", "e", "f">>}

\* C15: in every address book built by empty / from_descriptor / insert /
\* merge every stored key is lowercase and two addresses that differ only in
\* letter case resolve alike; two token keys of one chain whose addresses
\* differ only in case look up alike, and the entry just inserted for
\* (chain, addr) is returned for every spelling of addr on that chain, the
\* lookups on every other chain id being what they were.
C15_CaseInsensitive ==
    /\ \A self \in BookNames :
          /\ \A k \in DOMAIN books[self] : IsLowercase(k)
          /\ \A a \in BookQueries, b \in BookQueries :
                DifferOnlyInCase(a, b) => resolve(books[self], a) = resolve(books[self], b)
    /\ \A chain_id \in BookChains, a \in BookQueries, b \in BookQueries :
          DifferOnlyInCase(a, b) =>
              lookup(tokens, TokenLookupKey(chain_id, a)) = lookup(tokens, TokenLookupKey(chain_id, b))
    /\ call.op = "token_insert" =>
          \A addr \in BookQueries :
              DifferOnlyInCase(addr, call.address) =>
                  /\ lookup(tokens, TokenLookupKey(call.chain_id, addr)) = Some(call.meta)
                  /\ \A chain_id \in BookChains \ {call.chain_id} :
                        lookup(tokens, TokenLookupKey(chain_id, addr))
                            = lookup(call.before, TokenLookupKey(chain_id, addr))

\* an address in mixed case was inserted into a book that now resolves its
\* other spellings, next to a token source that knows the address on one
\* chain only, whatever its spelling
C15_Witness ==
    /\ call.op = "insert"
    /\ ~IsLowercase(call.address)
    /\ \A a \in BookQueries :
          DifferOnlyInCase(a, call.address) => resolve(books[call.self], a) = Some(call.label)
    /\ \E a \in BookQueries : DifferOnlyInCase(a, call.address) /\ a # call.address
    /\ \E chain_id \in BookChains :
          /\ \A a \in BookQueries :
                DifferOnlyInCase(a, call.address) =>
                    lookup(tokens, TokenLookupKey(chain_id, a)).some
          /\ \A other \in BookChains \ {chain_id} :
                ~lookup(tokens, TokenLookupKey(other, call.address)).some

(***************************************************************************)
(* C16: AddressBook::merge inserts what is absent                          *)
(***************************************************************************)
\* the book merged into as it was, and the book merged from as it was
MergedInto == call.before[call.self]

MergedFrom == call.before[call.other]

\* C16: after a.merge(b) an address that resolved in a resolves as before,
\* an address that resolved only in b resolves to b's label, no other address
\* resolves and no other key is stored, b is as it was, and merging b once
\* more changes nothing.
C16_MergeInsertIfAbsent ==
    call.op = "merge" =>
        /\ \A q \in BookQueries :
              resolve(books[call.self], q)
                  = IF resolve(MergedInto, q).some THEN resolve(MergedInto, q)
                    ELSE resolve(MergedFrom, q)
        /\ DOMAIN books[call.self] = DOMAIN MergedInto \cup DOMAIN MergedFrom
        /\ books[call.other] = MergedFrom
        /\ merge(books[call.self], books[call.other]) = books[call.self]

\* a merge of a book that held another label for an address of a, and an
\* address a did not hold
C16_Witness ==
    /\ call.op = "merge"
    /\ \E q \in BookQueries :
          /\ resolve(MergedInto, q).some
          /\ resolve(MergedFrom, q).some
          /\ resolve(MergedInto, q) # resolve(MergedFrom, q)
          /\ resolve(books[call.self], q) = resolve(MergedInto, q)
    /\ \E q \in BookQueries :
          /\ ~resolve(MergedInto, q).some
          /\ resolve(books[call.self], q).some

(***************************************************************************)
(* C17: what decode_calldata checks before it decodes                      *)
(***************************************************************************)
\* the state holds the result of decode_calldata under a signature that parsed
DecodeCall == call.op = "decode_calldata" /\ parse_signature(call.signature).ok

DecodeSig == parse_signature(call.signature).val

\* the bytes after the selector
DecodeData == Drop(call.calldata, 5)

\* bytes in lowercase hexadecimal, two digits a byte
HexText(b) ==
    [i \in 1..(2 * Len(b)) |->
        IF i % 2 = 1 THEN HexChars[(b[(i + 1) \div 2] \div 16) + 1]
        ELSE HexChars[(b[i \div 2] % 16) + 1]]

\* C17: a buffer of fewer than 4 bytes gives CalldataTooShort {expected: 4,
\* actual: its length}; otherwise a buffer whose first 4 bytes are not the
\* signature's selector gives SelectorMismatch with both selectors; an
\* error about the arguments comes only after both checks passed, and a
\* buffer of the 4 bytes of the selector decodes, under a signature without
\* parameters, to an empty argument list.
C17_CheckOrder ==
    DecodeCall =>
        /\ Len(call.calldata) < 4 =>
              returned = Err(CalldataTooShort(USize(4), USize(Len(call.calldata))))
        /\ (Len(call.calldata) >= 4 /\ SubSeq(call.calldata, 1, 4) # DecodeSig.selector) =>
              returned = Err(SelectorMismatch(HexText(DecodeSig.selector),
                                              HexText(SubSeq(call.calldata, 1, 4))))
        /\ (Len(call.calldata) >= 4 /\ SubSeq(call.calldata, 1, 4) = DecodeSig.selector) =>
              \/ returned.ok
              \/ /\ returned.err.sub # "SelectorMismatch"
                 /\ returned.err.sub = "CalldataTooShort" =>
                        returned.err.what[2] = USize(Len(DecodeData))
        /\ (call.calldata = DecodeSig.selector /\ DecodeSig.params = <<>>) =>
              returned = Ok([function_name |-> DecodeSig.name,
                             selector |-> DecodeSig.selector, args |-> <<>>])

\* a buffer of another selector whose words would have decoded under the
\* signature
C17_Witness ==
    /\ DecodeCall
    /\ DecodeSig.params # <<>>
    /\ Len(call.calldata) >= 4
    /\ SubSeq(call.calldata, 1, 4) # DecodeSig.selector
    /\ decode_head_loop(DecodeSig.params, DecodeData, 1, <<>>).ok
    /\ ~returned.ok
    /\ returned.err.sub = "SelectorMismatch"

(***************************************************************************)
(* C18: offsets out of range                                               *)
(***************************************************************************)
\* the buffer holds the signature's selector and the head word of a dynamic
\* first parameter
DynamicHead ==
    /\ DecodeCall
    /\ Len(call.calldata) >= 4 + 32
    /\ SubSeq(call.calldata, 1, 4) = DecodeSig.selector
    /\ DecodeSig.params # <<>>
    /\ is_dynamic(DecodeSig.params[1])

\* that head word
OffsetWord == SubSeq(DecodeData, 1, 32)

HighBytesSet == \E i \in 1..24 : OffsetWord[i] # 0

\* the offset fits in 8 bytes and points at or beyond the end of the data
PointsBeyond ==
    /\ ~HighBytesSet
    /\ ~ULt(u64_from_be_bytes(SubSeq(OffsetWord, 25, 32)), USize(Len(DecodeData)))

\* C18: a dynamic parameter whose head word has a non-zero byte among its
\* high 24 bytes, or holds an offset at or beyond the end of the data, makes
\* decode_calldata fail with InvalidEncoding.
C18_OffsetOutOfRange ==
    (DynamicHead /\ (HighBytesSet \/ PointsBeyond)) => returned = Err(InvalidEncoding)

\* the part of C18 about the high 24 bytes
C18_HighBytesRejected ==
    (DynamicHead /\ HighBytesSet) => returned = Err(InvalidEncoding)

\* the offset 32 at the head of 32 bytes of data: the answer is
\* CalldataTooShort {expected: 64, actual: 32}
C18_BeyondIsTooShort ==
    /\ DynamicHead
    /\ DecodeData = WordOffset
    /\ PointsBeyond
    /\ returned = Err(CalldataTooShort(USize(64), USize(32)))

(***************************************************************************)
(* C19: offsets inside a dynamic tuple or an array of dynamic elements     *)
(***************************************************************************)
RECURSIVE HoldsOffsets(_)
\* a dynamic tuple or an array of dynamic elements, at any depth of the type
HoldsOffsets(param) ==
    CASE param.t = "Tuple" ->
            is_dynamic(param) \/ \E i \in 1..Len(param.members) : HoldsOffsets(param.members[i])
      [] param.t \in {"Array", "FixedArray"} -> is_dynamic(param.inner) \/ HoldsOffsets(param.inner)
      [] OTHER -> FALSE

\* the buffer is the standard encoding of the values under the signature of the call
EncodesValues(values) ==
    /\ DecodeCall
    /\ call.calldata = DecodeSig.selector \o EncodeSeq(DecodeSig.params, values, 1, <<>>, <<>>)

\* the call returned the values as its arguments
ReturnedValues(values) ==
    /\ returned.ok
    /\ Len(returned.val.args) = Len(values)
    /\ \A i \in 1..Len(values) : returned.val.args[i].value = values[i]

\* the rows of values the model encodes for the signature of the call
CallRows == IF DecodeCall THEN RowsOf(DecodeSig.params) ELSE {}

\* C19: decoding the standard ABI encoding of a value that holds a dynamic
\* tuple or an array of dynamic elements returns the encoded elements, the
\* offsets inside being read from the start of the enclosing tuple or of the
\* array's element area.
C19_RelativeOffsets ==
    \A values \in CallRows :
        (EncodesValues(values)
            /\ \E i \in 1..Len(DecodeSig.params) : HoldsOffsets(DecodeSig.params[i]))
        => ReturnedValues(values)

\* where no offset lies inside a tuple or an array the standard encoding
\* decodes to the encoded values
FlatOffsetsDecode ==
    \A values \in CallRows :
        (EncodesValues(values)
            /\ \A i \in 1..Len(DecodeSig.params) :
                  /\ ~HoldsOffsets(DecodeSig.params[i])
                  /\ StaticSize(DecodeSig.params[i]) = 32)
        => ReturnedValues(values)

\* string[] holding "a": the call returns a string read at the array's own
\* length word
C19_ReadsFromHead ==
    /\ DecodeCall
    /\ DecodeSig.params = <<Array(String_)>>
    /\ EncodesValues(<<ArrayV(<<StringV(<<"a">>)>>)>>)
    /\ returned.ok
    /\ returned.val.args[1].value # ArrayV(<<StringV(<<"a">>)>>)

(***************************************************************************)
(* C20: the shape of decoded values                                        *)
(***************************************************************************)
RECURSIVE HasShape(_, _)
\* the value has the variant of the type, a tuple the members of its type, a
\* fixed array its N elements, and so have the members and elements
HasShape(param, value) ==
    CASE param.t = "Address" -> value.v = "Address" /\ Len(value.bytes) = 20
      [] param.t = "Uint" -> value.v = "Uint" /\ Len(value.bytes) <= 32
      [] param.t = "Int" -> value.v = "Int" /\ Len(value.bytes) <= 32
      [] param.t = "Bool" -> value.v = "Bool" /\ value.b \in BOOLEAN
      [] param.t = "FixedBytes" -> value.v = "FixedBytes"
      [] param.t = "Bytes" -> value.v = "Bytes"
      [] param.t = "String" -> value.v = "String"
      [] param.t = "Array" ->
            /\ value.v = "Array"
            /\ \A i \in 1..Len(value.items) : HasShape(param.inner, value.items[i])
      [] param.t = "FixedArray" ->
            /\ value.v = "Array"
            /\ Len(value.items) = param.size
            /\ \A i \in 1..Len(value.items) : HasShape(param.inner, value.items[i])
      [] param.t = "Tuple" ->
            /\ value.v = "Tuple"
            /\ Len(value.items) = Len(param.members)
            /\ \A i \in 1..Len(value.items) : HasShape(param.members[i], value.items[i])

\* the number the low 8 bytes of the word at a byte offset of the data hold
WordAt(offset) == ToInt(u64_from_be_bytes(SubSeq(DecodeData, offset + 25, offset + 32)))

\* the length word of the array that is the i-th parameter: the word its
\* head word points at
LengthWord(i) == WordAt(WordAt(32 * (i - 1)))

\* C20: a successful decode_calldata returns one argument per parameter,
\* the i-th with index i (from 0) and the parameter's type, and each value
\* has the shape of its type: at most 32 bytes in a Uint or Int, the
\* members of the tuple type, N elements for a FixedArray(T, N), as many
\* elements in an array parameter as its length word says, and members and
\* elements of the declared variants at every depth.
C20_DeclaredShape ==
    (DecodeCall /\ returned.ok) =>
        /\ Len(returned.val.args) = Len(DecodeSig.params)
        /\ \A i \in 1..Len(returned.val.args) :
              /\ returned.val.args[i].index = i - 1
              /\ returned.val.args[i].param_type = DecodeSig.params[i]
              /\ HasShape(DecodeSig.params[i], returned.val.args[i].value)
              /\ DecodeSig.params[i].t = "Array" =>
                    Len(returned.val.args[i].value.items) = LengthWord(i)

\* a decoded array of two elements
C20_Witness ==
    /\ DecodeCall
    /\ returned.ok
    /\ \E i \in 1..Len(DecodeSig.params) :
          /\ DecodeSig.params[i].t = "Array"
          /\ Len(returned.val.args[i].value.items) = 2
          /\ LengthWord(i) = 2

(***************************************************************************)
(* C21: whitespace in a signature                                          *)
(***************************************************************************)
\* the state holds the result of parse_signature
ParseCall == call.op = "parse_signature"

\* the string without its whitespace
StripSpace(s) == SelectSeq(s, LAMBDA c : c \notin WhiteSpace)

\* the strings of the model that differ from s in whitespace only
SpacedAs(s) == {t \in SignatureTexts : StripSpace(t) = StripSpace(s)}

\* C21: a signature that parse_signature accepts has a canonical string
\* without whitespace, and every accepted string that differs from it only
\* in whitespace has the same canonical string and the same selector.
C21_WhitespaceIgnored ==
    (ParseCall /\ returned.ok) =>
        /\ \A i \in 1..Len(returned.val.canonical) : returned.val.canonical[i] \notin WhiteSpace
        /\ \A t \in SpacedAs(call.signature) :
              parse_signature(t).ok =>
                  /\ parse_signature(t).val.canonical = returned.val.canonical
                  /\ parse_signature(t).val.selector = returned.val.selector

\* whitespace around the whole string and around the types does not reach
\* the canonical string
C21_TypesTrimmed ==
    (ParseCall /\ returned.ok) =>
        \A i \in 1..Len(returned.val.canonical) :
            returned.val.canonical[i] \in WhiteSpace => i < Find(returned.val.canonical, <<"(">>)

\* "transfer (address,uint256)" is accepted with the name "transfer " and a
\* selector other than that of "transfer(address,uint256)"
C21_NameKeepsSpace ==
    /\ ParseCall
    /\ call.signature = <<"t", "r", "a", "n", "s", "f", "e", "r", " ", "(", "a", "d", "d", "r", "e", "s", "s", ",", "u", "i", "n", "t", "2", "5", "6", ")">>
    /\ returned.ok
    /\ returned.val.name = <<"t", "r", "a", "n", "s", "f", "e", "r", " ">>
    /\ returned.val.canonical = call.signature
    /\ returned.val.selector # <<169, 5, 156, 187>>

(***************************************************************************)
(* C22: the canonical string parses to itself                              *)
(***************************************************************************)
\* the canonical string of the call's result, parsed
Reparsed == parse_signature(returned.val.canonical)

ShorthandText == <<"f", "(", "u", "i", "n", "t", ",", "i", "n", "t", ")">>

NestedText == <<"f", "(", " ", "(", "u", "i", "n", "t", " ", ",", " ", "(", "b", "o", "o", "l", ",", "b", "y", "t", "e", "s", "4", ")", "[", "2", "]", ")", "[", "]", " ", ",", "s", "t", "r", "i", "n", "g", "[", "3", "]", "[", "]", " ", ")">>

\* C22: the canonical string of an accepted signature is accepted, with the
\* same name and parameter tree, and is its own canonical string; "f(uint,int)"
\* is accepted as Uint(256), Int(256) and printed "f(uint256,int256)".
C22_CanonicalIdempotent ==
    /\ (ParseCall /\ returned.ok) =>
          /\ Reparsed.ok
          /\ Reparsed.val.name = returned.val.name
          /\ Reparsed.val.params = returned.val.params
          /\ Reparsed.val.canonical = returned.val.canonical
    /\ (ParseCall /\ call.signature = ShorthandText) =>
          /\ returned.ok
          /\ returned.val.params = <<Uint(256), Int_(256)>>
          /\ returned.val.canonical = <<"f", "(", "u", "i", "n", "t", "2", "5", "6", ",", "i", "n", "t", "2", "5", "6", ")">>

\* a spaced signature of an array of tuples that hold a shorthand and an
\* array of tuples, and an array of fixed arrays: the canonical string is
\* another string, and it parses to the same tree
C22_Witness ==
    /\ ParseCall
    /\ call.signature = NestedText
    /\ returned.ok
    /\ returned.val.params =
          <<Array(Tuple(<<Uint(256), FixedArray(Tuple(<<Bool, FixedBytes(4)>>), 2)>>)),
            Array(FixedArray(String_, 3))>>
    /\ returned.val.canonical = <<"f", "(", "(", "u", "i", "n", "t", "2", "5", "6", ",", "(", "b", "o", "o", "l", ",", "b", "y", "t", "e", "s", "4", ")", "[", "2", "]", ")", "[", "]", ",", "s", "t", "r", "i", "n", "g", "[", "3", "]", "[", "]", ")">>
    /\ Reparsed.ok
    /\ Reparsed.val.params = returned.val.params

(***************************************************************************)
(* C23: dates out of range                                                 *)
(***************************************************************************)
\* the non-negative integer a value denotes, as a decimal numeral
Denoted(c, value) ==
    IF ~c.typed THEN
        IF value.v = "Uint" THEN Some(biguint_to_string(value.bytes)) ELSE None
    ELSE CASE value.j = "Number" -> Some(value.n)
           [] value.j = "String" /\ IsNumeral(value.s) -> Some(StripZeros(value.s))
           [] OTHER -> None

\* the state holds the result of rendering one visible Date field whose
\* value denotes a non-negative integer
DateCase ==
    /\ OneFieldCase
    /\ OneLeaf.field.format = Some("Date")
    /\ OneLeaf.value.some
    /\ Shown(Selection.val.c, OneLeaf.field, OneLeaf.value)
    /\ Denoted(Selection.val.c, OneLeaf.value.val).some

DateDenoted == Denoted(Selection.val.c, OneLeaf.value.val).val

EpochText == <<"1", "9", "7", "0", "-", "0", "1", "-", "0", "1", " ", "0", "0", ":", "0", "0", ":", "0", "0", " ", "U", "T", "C">>

\* C23: a Date field whose value is beyond the last timestamp of the date
\* library (9999-12-31 23:59:59), 2^63 and more included, ends the call
\* with a Render error; a date that is rendered is the epoch only for the
\* value 0.
C23_DateOutOfRange ==
    DateCase =>
        IF ~DecLe(DateDenoted, MaxTimestampDec)
        THEN ~returned.ok /\ returned.err.kind = "Render"
        ELSE returned.ok =>
                (returned.val.entries[1].item.value = EpochText => DateDenoted = <<"0">>)

\* the part of C23 below 2^63
C23_BelowI64 ==
    (DateCase /\ ~DecLe(DateDenoted, MaxTimestampDec) /\ DecLe(DateDenoted, I64MaxDec)) =>
        (~returned.ok /\ returned.err = RenderError(invalid_timestamp))

\* increaseUnlockTime(2^63) shown as the epoch
C23_EpochForTwoTo63 ==
    /\ DateCase
    /\ call.op = "format_calldata"
    /\ DateDenoted = <<"9", "2", "2", "3", "3", "7", "2", "0", "3", "6", "8", "5", "4", "7", "7", "5", "8", "0", "8">>
    /\ returned.ok
    /\ returned.val.entries[1].item.value = EpochText

(***************************************************************************)
(* C24: chain IDs                                                          *)
(***************************************************************************)
\* the chain IDs of the table of chain_name
KnownChainIds ==
    {<<"1">>,
     <<"1", "0">>,
     <<"5", "6">>,
     <<"1", "0", "0">>,
     <<"1", "3", "7">>,
     <<"2", "5", "0">>,
     <<"3", "2", "4">>,
     <<"8", "4", "5", "3">>,
     <<"4", "2", "1", "6", "1">>,
     <<"4", "2", "1", "7", "0">>,
     <<"4", "3", "1", "1", "4">>,
     <<"5", "9", "1", "4", "4">>,
     <<"5", "3", "4", "3", "5", "2">>,
     <<"7", "7", "7", "7", "7", "7", "7">>}

\* the state holds the result of format_calldata rendering one visible
\* ChainId field whose value is a Uint
ChainCase ==
    /\ OneFieldCase
    /\ call.op = "format_calldata"
    /\ OneLeaf.field.format = Some("ChainId")
    /\ OneLeaf.value.some
    /\ OneLeaf.value.val.v = "Uint"
    /\ Shown(Selection.val.c, OneLeaf.field, OneLeaf.value)

ChainDenoted == biguint_to_string(OneLeaf.value.val.bytes)

\* C24: a ChainId field of Uint value v is rendered as the table name when
\* v is a known chain ID and as "Chain v", v in decimal, for every other
\* value of the 256-bit range.
C24_ChainIdRendered ==
    ChainCase =>
        /\ returned.ok
        /\ returned.val.entries[1].item.value =
                IF ChainDenoted \in KnownChainIds THEN chain_name(ChainDenoted)
                ELSE <<"C", "h", "a", "i", "n", " ">> \o ChainDenoted

\* the part of C24 below 2^64
C24_WithinU64 ==
    (ChainCase /\ DecLe(ChainDenoted, U64MaxDec)) =>
        /\ returned.ok
        /\ returned.val.entries[1].item.value =
                IF ChainDenoted \in KnownChainIds THEN chain_name(ChainDenoted)
                ELSE <<"C", "h", "a", "i", "n", " ">> \o ChainDenoted

\* a known chain ID shown by its name
C24_KnownShown ==
    /\ ChainCase
    /\ ChainDenoted = <<"1", "3", "7">>
    /\ returned.ok
    /\ returned.val.entries[1].item.value = <<"P", "o", "l", "y", "g", "o", "n">>

\* 2^64 shown as "Chain 0"
C24_ChainZeroForTwoTo64 ==
    /\ ChainCase
    /\ ChainDenoted = <<"1", "8", "4", "4", "6", "7", "4", "4", "0", "7", "3", "7", "0", "9", "5", "5", "1", "6", "1", "6">>
    /\ returned.ok
    /\ returned.val.entries[1].item.value = <<"C", "h", "a", "i", "n", " ", "0">>

(***************************************************************************)
(* C25: amounts with decimals                                              *)
(***************************************************************************)
RECURSIVE Pow10(_)
Pow10(k) == IF k = 0 THEN 1 ELSE 10 * Pow10(k - 1)

\* a div 10^d and a mod 10^d for the amounts of the model, all below 10^10
Quotient(a, d) == IF d <= 9 THEN a \div Pow10(d) ELSE 0

Remainder(a, d) == IF d <= 9 THEN a % Pow10(d) ELSE a

\* a mod 10^d written with d places
FracPlaces(a, d) ==
    [i \in 1..d |->
        DigitChars[(IF d - i > 9 THEN 0 ELSE (Remainder(a, d) \div Pow10(d - i)) % 10) + 1]]

\* the places that remain when the trailing zeros are removed
Kept(places) ==
    IF \A i \in 1..Len(places) : places[i] = "0" THEN 0
    ELSE CHOOSE i \in 1..Len(places) :
            places[i] # "0" /\ \A j \in (i + 1)..Len(places) : places[j] = "0"

\* the decimal notation of a / 10^d
ExactDecimal(a, d) ==
    IF a = 0 /\ d > 0 THEN <<"0", ".", "0">>
    ELSE Let([places \in {FracPlaces(a, d)} |->
         Let([kept \in {Kept(places)} |->
            IF kept = 0 THEN NatToString(Quotient(a, d))
            ELSE NatToString(Quotient(a, d)) \o <<".">> \o SubSeq(places, 1, kept)])])

\* C25: format_with_decimals(a, d) is the exact decimal notation of
\* a / 10^d: a div 10^d without leading zeros, then a mod 10^d padded to d
\* places with the trailing zeros removed, no point when no fractional
\* digit remains, and "0.0" when a = 0 and d > 0.
C25_ExactDecimal ==
    call.op = "format_with_decimals" =>
        returned = ExactDecimal(call.amount, call.decimals)

\* 123 with 6 decimals is "0.000123"
C25_Witness ==
    /\ call.op = "format_with_decimals"
    /\ call.amount = 123
    /\ call.decimals = 6
    /\ returned = <<"0", ".", "0", "0", "0", "1", "2", "3">>

(***************************************************************************)
(* C26: the short circuits of the dispatcher                               *)
(***************************************************************************)
\* the raw string form of a value, as each pipeline writes it
RawForm(c, value) == IF c.typed THEN json_value_to_string(value) ELSE format_raw(value)

\* the state holds the result of rendering one visible field whose path
\* resolves and which has params
DispatchCase ==
    /\ OneFieldCase
    /\ OneLeaf.value.some
    /\ Shown(Selection.val.c, OneLeaf.field, OneLeaf.value)
    /\ OneLeaf.field.params.some

DispatchParams == OneLeaf.field.params.val

DispatchRaw == RawForm(Selection.val.c, OneLeaf.value.val)

FallbackSet ==
    DispatchParams.encryption.some /\ DispatchParams.encryption.val.fallback_label.some

\* the map reference names a map of the descriptor that has the raw form as a key
MapHit ==
    /\ DispatchParams.map_reference.some
    /\ DispatchParams.map_reference.val \in DOMAIN Selection.val.c.descriptor.metadata.maps
    /\ DispatchRaw \in
            DOMAIN Selection.val.c.descriptor.metadata.maps[DispatchParams.map_reference.val]

\* the Result of the field's format alone: the same field without
\* encryption and map reference
FormatAlone ==
    LeafFormatted(Selection.val.c,
                  [OneLeaf EXCEPT !.field.params =
                      Some([DispatchParams EXCEPT !.encryption = None, !.map_reference = None])])

\* the call returned one item of this value
OneItemOf(value) ==
    /\ returned.ok
    /\ Len(returned.val.entries) = 1
    /\ returned.val.entries[1].item.value = value

\* C26: for a displayed field whose path resolves, a fallback label is the
\* value whatever map_reference and format say; otherwise the label of the
\* map entry under the raw string form is the value whatever format says;
\* on a map miss the value is that of the format, or the raw string form
\* when no format is given.
C26_ShortCircuitOrder ==
    DispatchCase =>
        IF FallbackSet THEN OneItemOf(DispatchParams.encryption.val.fallback_label.val)
        ELSE IF MapHit
        THEN OneItemOf(Selection.val.c.descriptor.metadata.maps
                            [DispatchParams.map_reference.val][DispatchRaw])
        ELSE IF ~OneLeaf.field.format.some THEN OneItemOf(DispatchRaw)
        ELSE IF FormatAlone.ok THEN OneItemOf(FormatAlone.val)
        ELSE returned = FormatAlone

\* a date field with a fallback label and a map hit shows the fallback label
C26_Witness ==
    /\ DispatchCase
    /\ call.op = "format_calldata"
    /\ FallbackSet
    /\ MapHit
    /\ OneLeaf.field.format = Some("Date")
    /\ OneItemOf(<<"S", "e", "c", "r", "e", "t">>)

\* a date field with a map hit and no fallback label shows the map's label
C26_MapBeforeFormat ==
    /\ DispatchCase
    /\ call.op = "format_calldata"
    /\ ~FallbackSet
    /\ MapHit
    /\ OneLeaf.field.format = Some("Date")
    /\ OneItemOf(<<"T", "o", "m", "o", "r", "r", "o", "w">>)

\* a date field whose map is not defined shows the date
C26_MissFallsThrough ==
    /\ DispatchCase
    /\ ~FallbackSet
    /\ DispatchParams.map_reference = Some(<<"a", "b", "s", "e", "n", "t">>)
    /\ OneLeaf.field.format = Some("Date")
    /\ FormatAlone.ok
    /\ OneItemOf(FormatAlone.val)

(***************************************************************************)
(* C27: the chain of a token lookup                                        *)
(***************************************************************************)
\* the state holds the result of rendering one visible TokenAmount field
\* whose value denotes an unsigned integer and whose token path resolves
\* to an address
LookupCase ==
    /\ OneFieldCase
    /\ OneLeaf.field.format = Some("TokenAmount")
    /\ OneLeaf.value.some
    /\ Shown(Selection.val.c, OneLeaf.field, OneLeaf.value)
    /\ Denoted(Selection.val.c, OneLeaf.value.val).some
    /\ OneLeaf.field.params.some
    /\ ~OneLeaf.field.params.val.encryption.some
    /\ ~OneLeaf.field.params.val.map_reference.some
    /\ ~OneLeaf.field.params.val.native_currency_address.some
    /\ OneLeaf.field.params.val.token_path.some
    /\ LET token == Resolved(Selection.val.c, OneLeaf.field.params.val.token_path.val) IN
        /\ token.some
        /\ IF Selection.val.c.typed THEN token.val.j = "String" ELSE token.val.v = "Address"

LookupParams == OneLeaf.field.params.val

LookupAmount == Denoted(Selection.val.c, OneLeaf.value.val).val

\* the value chain_id_path resolves to against the root of the render
ChainPathValue == Resolved(Selection.val.c, LookupParams.chain_id_path.val)

\* the chain the lookup is to use
LookupChain ==
    IF LookupParams.chain_id.some THEN LookupParams.chain_id.val
    ELSE IF LookupParams.chain_id_path.some /\ ChainPathValue.some
            /\ Denoted(Selection.val.c, ChainPathValue.val).some
    THEN Denoted(Selection.val.c, ChainPathValue.val).val
    ELSE Selection.val.c.chain_id

\* the key the token source is to be asked for
LookupKey ==
    <<"e", "i", "p", "1", "5", "5", ":">> \o LookupChain \o <<"/", "e", "r", "c", "2", "0", ":">>
        \o ToLowercase(RawForm(Selection.val.c,
                                Resolved(Selection.val.c, LookupParams.token_path.val).val))

\* the amount as the token under LookupKey writes it, or as it is when the
\* source has no such token
LookupShown ==
    IF LookupKey \in DOMAIN call.token_source
    THEN format_with_decimals(LookupAmount, call.token_source[LookupKey].decimals)
            \o <<" ">> \o call.token_source[LookupKey].symbol
    ELSE LookupAmount

\* chain_id_path decides, and resolves to a value beyond a u64 or to a
\* string numeral of the typed data
ChainPathDecides == ~LookupParams.chain_id.some /\ LookupParams.chain_id_path.some /\ ChainPathValue.some

ChainBeyondU64 ==
    /\ ChainPathDecides
    /\ Denoted(Selection.val.c, ChainPathValue.val).some
    /\ ~DecLe(Denoted(Selection.val.c, ChainPathValue.val).val, U64MaxDec)

ChainAsText ==
    /\ ChainPathDecides
    /\ Selection.val.c.typed
    /\ ChainPathValue.val.j = "String"
    /\ IsNumeral(ChainPathValue.val.s)

\* C27: in both pipelines the token lookup uses params.chain_id when set,
\* otherwise the unsigned integer chain_id_path resolves to against the
\* root of the render, otherwise the chain id of the request; the token
\* source is asked for "eip155:<chain>/erc20:<lowercase address>".
C27_LookupChain == LookupCase => OneItemOf(LookupShown)

\* the part of C27 for chain values the code reads as a u64
C27_ChainWithinU64 == (LookupCase /\ ~ChainBeyondU64 /\ ~ChainAsText) => OneItemOf(LookupShown)

\* the chain of the path is used: transfer(AddrA, 1500000) on chain 1500000
C27_PathChainUsed ==
    /\ LookupCase
    /\ ChainPathDecides
    /\ LookupChain = <<"1", "5", "0", "0", "0", "0", "0">>
    /\ OneItemOf(<<"1", "5", "0", "0", "0", " ", "T", "K", "N">>)

\* a string numeral of the typed data is not used: the amount is written
\* as the token of chain 1
C27_TextChainIgnored ==
    /\ LookupCase
    /\ ChainAsText
    /\ LookupChain = <<"1", "5", "0", "0", "0", "0", "0">>
    /\ OneItemOf(<<"1", ".", "5", " ", "U", "S", "D", "C">>)

(***************************************************************************)
(* C28: paths with an index in typed data                                  *)
(***************************************************************************)
\* the state holds the result of format_typed_data rendering one field
\* whose path has an index
IndexCase ==
    /\ call.op = "format_typed_data"
    /\ Selection.some
    /\ Len(Selection.val.format.fields) = 1
    /\ Selection.val.format.fields[1] \in IndexFields

IndexPath == Selection.val.format.fields[1].path

\* the path names the one item of the array of the message
WellIndexed ==
    /\ IndexPath = <<"i", "t", "e", "m", "s", "[", "0", "]">>
    /\ call.data.message = ItemsMessage

Unresolved == <<"<", "u", "n", "r", "e", "s", "o", "l", "v", "e", "d", ">">>

\* C28: resolve_typed_path never fails: a segment with a malformed index
\* ("items[", "[", "items[x]", "items[0") and an index past the end of the
\* array resolve to absent, and format_typed_data shows the field as
\* unresolved.
C28_PathTotal ==
    IndexCase =>
        /\ resolve_typed_path(call.data.message, IndexPath).ok
        /\ OneItemOf(IF WellIndexed THEN <<"a">> ELSE Unresolved)

\* the part of C28 for segments that do not end with the opening bracket
C28_ClosedIndex ==
    (IndexCase /\ IndexPath[Len(IndexPath)] # "[") =>
        /\ resolve_typed_path(call.data.message, IndexPath).ok
        /\ OneItemOf(IF WellIndexed THEN <<"a">> ELSE Unresolved)

\* the path "items[" ends the call with a panic
C28_OpenBracketPanics ==
    /\ IndexCase
    /\ IndexPath = <<"i", "t", "e", "m", "s", "[">>
    /\ returned = Err(PanicErr)

\* the item of the array is shown
C28_ItemShown == IndexCase /\ WellIndexed /\ OneItemOf(<<"a">>)

(***************************************************************************)
(* C29: interpolation ends                                                 *)
(***************************************************************************)
\* the state holds the result of a call that came to interpolate an intent
InterpolationCase ==
    /\ Selection.some
    /\ Selection.val.format.interpolated_intent.some

\* the raw string form of the value at path "0", if it resolves
ArgumentZero == Resolved(Selection.val.c, <<"0">>)

\* the value at path "0" holds the opening of a placeholder
PlaceholderInArgument ==
    /\ ArgumentZero.some
    /\ Find(RawForm(Selection.val.c, ArgumentZero.val), <<"$", "{">>) # 0

CallHangs == ~returned.ok /\ returned.err = HangErr

\* C29: interpolation ends for every template and every arguments or
\* message, and the text put in for a placeholder is not read again: with
\* the template "say ${0}" and the value "${0}" at path "0" the intent is
\* "say ${0}".
C29_InterpolationEnds ==
    InterpolationCase =>
        /\ ~CallHangs
        /\ (/\ Selection.val.format.interpolated_intent.val
                    = <<"s", "a", "y", " ", "$", "{", "0", "}">>
            /\ ArgumentZero.some
            /\ RawForm(Selection.val.c, ArgumentZero.val) = <<"$", "{", "0", "}">>) =>
                /\ returned.ok
                /\ returned.val.interpolated_intent
                        = Some(<<"s", "a", "y", " ", "$", "{", "0", "}">>)

\* the part of C29 for values without "${"
C29_PlainValuesEnd == (InterpolationCase /\ ~PlaceholderInArgument) => ~CallHangs

\* format_typed_data does not return with the value "${0}" at path "0"
C29_TypedCallHangs ==
    /\ call.op = "format_typed_data"
    /\ InterpolationCase
    /\ PlaceholderInArgument
    /\ CallHangs

(***************************************************************************)
(* C30: the format of the decoding key                                     *)
(***************************************************************************)
\* the descriptor of the call with display.formats iterated the other way
OtherOrder ==
    [call.descriptor EXCEPT !.display.formats =
        [i \in 1..Len(@) |-> @[Len(@) + 1 - i]]]

\* the state holds the result of a format_calldata call that found a key
\* and decoded the calldata with its signature
DecodedCase == CalldataCall /\ CallFound.ok /\ CallDecoded.ok

\* the format stored under the key whose signature decoded the calldata
DecodingFormat == EntriesGet(call.descriptor.display.formats, CallFound.val.key).val

\* C30: format_calldata renders the format stored under the key whose
\* parsed signature decoded the calldata, and the result does not depend
\* on the iteration order of display.formats.
C30_FormatOfDecodingKey ==
    DecodedCase =>
        /\ returned = format_calldata(OtherOrder, <<"1">>, call.calldata, call.token_source)
        /\ returned.ok =>
                returned.val.intent =
                    IF DecodingFormat.intent.some THEN DecodingFormat.intent.val
                    ELSE CallDecoded.val.function_name

\* the part of C30 for descriptors of one format
C30_OneKey ==
    (DecodedCase /\ Len(call.descriptor.display.formats) = 1) =>
        /\ returned = format_calldata(OtherOrder, <<"1">>, call.calldata, call.token_source)
        /\ returned.ok =>
                returned.val.intent =
                    IF DecodingFormat.intent.some THEN DecodingFormat.intent.val
                    ELSE CallDecoded.val.function_name

\* the bare key "transfer", iterated first, gives its format to a call
\* decoded with "transfer(address,uint256)"
C30_BareKeyWins ==
    /\ DecodedCase
    /\ Len(call.descriptor.display.formats) = 2
    /\ call.descriptor.display.formats[1].key = NameKey
    /\ CallFound.val.key = TransferKey
    /\ returned.ok
    /\ returned.val.intent = <<"O", "t", "h", "e", "r">>

\* the same formats iterated the other way give the format of the full key
C30_FullKeyWins ==
    /\ DecodedCase
    /\ Len(call.descriptor.display.formats) = 2
    /\ call.descriptor.display.formats[2].key = NameKey
    /\ CallFound.val.key = TransferKey
    /\ returned.ok
    /\ returned.val.intent = <<"t", "r", "a", "n", "s", "f", "e", "r">>

====
